---- MODULE Spec2Model ----
(***************************************************************************)
(* Provisioning / reconciliation workflow of the membership application.   *)
(*                                                                         *)
(*   forward path : POST /api/provision-access -> provisionCircleAccess    *)
(*   reverse path : POST /api/webhooks/stripe  -> handleSubscriptionChange *)
(*   identity     : POST /api/webhooks/clerk                               *)
(*   admin        : updateCommunityConfiguration                           *)
(*                                                                         *)
(* Every await of the handlers (database call, community-platform call,    *)
(* payment-gateway call) is one step of a request; a request's position is *)
(* its pc.  The database tables User and Subscription, the community       *)
(* platform's member directory and space memberships are the shared state. *)
(* Nothing orders the handlers: requests and deliveries are in flight      *)
(* together and their steps interleave.                                    *)
(***************************************************************************)
EXTENDS Integers, Sequences, FiniteSets, TLC

\* ------------------------------------------------------------------ bounds
MaxForward == 2      \* checkout confirmations submitted in one behaviour
MaxHooks == 2        \* payment-gateway webhook deliveries in one behaviour
MaxCount == 2        \* the creation-call counter stops counting here
MaxInFlight == 2     \* requests and deliveries in flight at the same time
MaxOps == 2          \* requests, deliveries and script runs in one behaviour

\* ------------------------------------------------------- values and tokens
Null == 0                       \* null / undefined of a numeric or string field
NoRow == [absent |-> TRUE]      \* no such row
NoStr == ""                     \* a string that is missing / undefined
NoUser == NoStr                 \* auth() returned no userId
Unread == [unread |-> TRUE]     \* an input the handler never got to read
Threw == [threw |-> TRUE]       \* the call that fetches it raised

UserIds == {"u1", "u2"}
EmailOf(u) == IF u = "u1" THEN "a@x.ie" ELSE "b@x.ie"
Emails == {EmailOf(u) : u \in UserIds}
CustomerOf(u) == IF u = "u1" THEN "cus_1" ELSE "cus_2"
\* the id the community platform gives the member with this email
PlatformMemberId(e) == IF e = "a@x.ie" THEN 101 ELSE 102

Procs == {1, 2}

\* ------------------------------------------------------------ error strings
\* Strings the code searches in are sequences of characters, so that
\* includes() and toLowerCase() are computed and not assumed.
UpperCase ==
    << "A","B","C","D","E","F","G","H","I","J","K","L","M",
       "N","O","P","Q","R","S","T","U","V","W","X","Y","Z" >>
LowerCase ==
    << "a","b","c","d","e","f","g","h","i","j","k","l","m",
       "n","o","p","q","r","s","t","u","v","w","x","y","z" >>

\* String.prototype.toLowerCase on one character
Lower(c) ==
    IF \E i \in DOMAIN UpperCase : UpperCase[i] = c
    THEN LowerCase[CHOOSE i \in DOMAIN UpperCase : UpperCase[i] = c]
    ELSE c

toLowerCase(s) == [i \in DOMAIN s |-> Lower(s[i])]

includes(s, t) ==
    \E i \in 0..(Len(s) - Len(t)) : SubSeq(s, i + 1, i + Len(t)) = t

NoMsg == << >>                  \* message absent (undefined)
S_not_found == <<"n","o","t"," ","f","o","u","n","d">>
S_already_a_member ==
    <<"a","l","r","e","a","d","y"," ","a"," ","m","e","m","b","e","r">>
S_already_been_taken ==
    <<"a","l","r","e","a","d","y"," ","b","e","e","n"," ","t","a","k","e","n">>
M_NotFound == <<"N","o","t"," ","F","o","u","n","d">>
M_MemberNotFound == <<"M","e","m","b","e","r"," ">> \o S_not_found
M_AlreadyMember == <<"A","l","r","e","a","d","y"," ","a"," ","M","e","m","b","e","r">>
M_EmailTaken == <<"E","m","a","i","l"," ","h","a","s"," ">> \o S_already_been_taken
M_Server == <<"e","r","r","o","r">>
M_Network == <<"f","e","t","c","h"," ","f","a","i","l","e","d">>

\* What callCircleAdminApi throws: status (Null when the failure is not an
\* HTTP answer), message (data.message || data.error || default) and
\* details.message (data.message when the body is JSON with a message).
ApiError(status, message, detailsMessage) ==
    [status |-> status, message |-> message, detailsMessage |-> detailsMessage]

CircleErrors ==
    { ApiError(404, M_NotFound, M_NotFound),
      ApiError(404, M_Server, NoMsg),
      ApiError(422, M_MemberNotFound, M_MemberNotFound),
      ApiError(422, M_AlreadyMember, M_AlreadyMember),
      ApiError(422, S_already_a_member, NoMsg),
      ApiError(422, M_EmailTaken, M_EmailTaken),
      ApiError(500, M_Server, NoMsg),
      ApiError(Null, M_Network, NoMsg) }

\* no exception caught
NoError == ApiError(Null, NoMsg, NoMsg)

\* A database exception (Prisma error): no status, no details.
DbError == ApiError(Null, M_Server, NoMsg)


\* ------------------------------------------------------------------- state
VARIABLES
    env,           \* process environment: which secrets are configured
    users,         \* table User        : id -> row | NoRow
    communities,   \* table Community   : id -> row
    subs,          \* table Subscription: set of rows
    members,       \* community platform: emails that are community members
    spaceMembers,  \* community platform: <<email, spaceId>> memberships
    fwd,           \* the checkout confirmations in progress, per slot
    hook,          \* the payment-gateway webhook deliveries in progress, per slot
    nForward,      \* checkout confirmations submitted so far
    nHooks,        \* webhook deliveries received so far
    createCalls,   \* email -> POST community_members calls issued so far
    feed,          \* the gateway's events of one subscription and their
                   \* deliveries (used where the order of events matters)
    idp,           \* the identity-provider webhook deliveries in progress
    admin,         \* the community-configuration update in progress
    seed,          \* the run of the seeding script in progress
    attachedTo     \* history: <<Subscription id, space id>> of the latest
                   \* attach made for the Subscription (followed where the
                   \* configuration is edited)

vars == << env, users, communities, subs, members, spaceMembers,
           fwd, hook, nForward, nHooks, createCalls, feed, idp, admin,
           seed, attachedTo >>

\* what the payment paths leave alone
aside == << feed, idp, admin, seed, attachedTo >>

db == << users, communities, subs >>
platform == << members, spaceMembers >>

\* ------------------------------------------------- payment gateway (Stripe)
\* Checkout sessions held by the gateway; retrieving any other id throws.
CheckoutSessions ==
    [ cs_1 |-> [client_reference_id |-> "u1", payment_status |-> "paid",
                subscription |-> "sub_1", customer |-> "cus_1",
                price |-> "price_TEST_MONTHLY_SOLAS"],
      cs_2 |-> [client_reference_id |-> "u2", payment_status |-> "paid",
                subscription |-> "sub_2", customer |-> "cus_2",
                price |-> "price_TEST_ANNUAL_INDC"],
      cs_unpaid |-> [client_reference_id |-> "u1", payment_status |-> "unpaid",
                subscription |-> "sub_1", customer |-> "cus_1",
                price |-> "price_TEST_MONTHLY_SOLAS"],
      cs_price |-> [client_reference_id |-> "u1", payment_status |-> "paid",
                subscription |-> "sub_1", customer |-> "cus_1",
                price |-> "price_OTHER"],
      cs_nodata |-> [client_reference_id |-> "u1", payment_status |-> "paid",
                subscription |-> NoStr, customer |-> "cus_1",
                price |-> "price_TEST_MONTHLY_SOLAS"] ]

SessionIds == DOMAIN CheckoutSessions
StripeSubscriptionIds == {"sub_1", "sub_2"}

\* ---------------------------------------------------------------- database
SeedCommunities ==
    [ c \in {1, 2} |->
        IF c = 1
        THEN [id |-> 1, slug |-> "indc-community", circleSpaceId |-> 1111111,
              stripePriceIdMonthly |-> "price_TEST_MONTHLY_INDC",
              stripePriceIdAnnually |-> "price_TEST_ANNUAL_INDC"]
        ELSE [id |-> 2, slug |-> "solas-nua", circleSpaceId |-> 2222222,
              stripePriceIdMonthly |-> "price_TEST_MONTHLY_SOLAS",
              stripePriceIdAnnually |-> "price_TEST_ANNUAL_SOLAS"] ]

SpaceIds == {1111111, 2222222}
Slugs == {"indc-community", "solas-nua"}

\* prisma.community.findUnique({ where: { slug } })
CommunityBySlug(slug) ==
    LET hit == {c \in DOMAIN communities : communities[c].slug = slug}
    IN  IF hit = {} THEN NoRow ELSE communities[CHOOSE c \in hit : TRUE]

\* UserUpsert replacing the row, cached member id included
UserUpsert_ResetsMemberId(u, email, customer) ==
    [users EXCEPT ![u] = [id |-> u, email |-> email,
                          stripeCustomerId |-> customer,
                          circleCommunityMemberId |-> Null]]

\* prisma.user.upsert({ where: { id }, update: {email, stripeCustomerId},
\*                      create: {id, email, stripeCustomerId} })
\* the cached member id is written by neither branch.
UserUpsert(u, email, customer) ==
    IF users[u] = NoRow
    THEN [users EXCEPT ![u] = [id |-> u, email |-> email,
                               stripeCustomerId |-> customer,
                               circleCommunityMemberId |-> Null]]
    ELSE [users EXCEPT ![u] = [@ EXCEPT !.email = email,
                                        !.stripeCustomerId = customer]]

\* prisma.user.update({ where: { id }, data: { circleCommunityMemberId } });
\* an undefined value writes nothing.
UserSetMemberId(u, memberId) ==
    IF memberId = Null THEN users
    ELSE [users EXCEPT ![u] = [@ EXCEPT !.circleCommunityMemberId = memberId]]

\* the two unique indexes of Subscription the upsert can run into
SubRowsOf(u, c) == {r \in subs : r.userId = u /\ r.communityId = c}
SubByStripeId(sid) == {r \in subs : r.stripeSubscriptionId = sid}
SubById(id) == {r \in subs : r.id = id}

NextSubId == 1 + Cardinality(subs)

\* the status of the row in `rows` (at most one), NoStr when there is none
StatusOf(rows) ==
    IF rows = {} THEN NoStr ELSE (CHOOSE r \in rows : TRUE).status

\* prisma.subscription.upsert keyed on (userId, communityId): TRUE when the
\* unique index on stripeSubscriptionId rejects the write.
SubUpsertConflicts(u, c, sid) ==
    \E r \in SubByStripeId(sid) : ~(r.userId = u /\ r.communityId = c)

\* SubUpsert as a plain insert: the (userId, communityId) key is not consulted
SubUpsert_AlwaysInsert(u, c, sid, plan, now) ==
    subs \cup { [id |-> NextSubId, userId |-> u, communityId |-> c,
                 status |-> "active", stripeSubscriptionId |-> sid,
                 planType |-> plan, startDate |-> now, endDate |-> Null] }

SubUpsert(u, c, sid, plan, now) ==
    IF SubRowsOf(u, c) # {}
    THEN { IF r.userId = u /\ r.communityId = c
           THEN [r EXCEPT !.status = "active", !.stripeSubscriptionId = sid,
                          !.planType = plan, !.startDate = now,
                          !.endDate = Null]
           ELSE r : r \in subs }
    ELSE subs \cup { [id |-> NextSubId, userId |-> u, communityId |-> c,
                      status |-> "active", stripeSubscriptionId |-> sid,
                      planType |-> plan, startDate |-> now,
                      endDate |-> Null] }

\* prisma.subscription.update({ where: { id }, data })
\* data holds the keys to write, as the JavaScript object does
SubUpdate(id, data) ==
    { IF r.id = id
      THEN [r EXCEPT !.status = IF "status" \in DOMAIN data THEN data.status ELSE @,
                     !.endDate = IF "endDate" \in DOMAIN data THEN data.endDate ELSE @]
      ELSE r : r \in subs }


\* ------------------------------------------- forward path: the route's checks
\* src/app/api/provision-access/route.ts, POST, up to the call of
\* provisionCircleAccess.  `in` is everything the handler can read:
\*   userId, email           the authenticated identity (NoUser / NoStr if none)
\*   sessionId, spaceId, communitySlug   the request body
\*   gateway                 "ok", or the message of the error that
\*                           sessions.retrieve raises
\*   lookup                  "ok" | "fail": community.findUnique answers or raises
NoUrl == << >>
Response(status, success, error, redirectUrl) ==
    [status |-> status, success |-> success, error |-> error,
     redirectUrl |-> redirectUrl]

\* messages of errors raised by the gateway's client
GatewayErrors ==
    { "Invalid API Key provided",
      "An error occurred with our connection to Stripe" }

SessionOf(in) ==
    IF in.gateway = "ok" /\ in.sessionId \in SessionIds
    THEN CheckoutSessions[in.sessionId] ELSE Threw

\* the message of the error sessions.retrieve raised
GatewayMessage(in) ==
    IF in.gateway # "ok" THEN in.gateway ELSE "No such checkout.session"

CommunityOf(in) == IF in.lookup = "ok" THEN CommunityBySlug(in.communitySlug) ELSE Threw

PlanTypeOf(price, community) ==
    IF price = community.stripePriceIdMonthly THEN "monthly"
    ELSE IF price = community.stripePriceIdAnnually THEN "annual"
    ELSE NoStr

\* RouteStage without the plan-type check of lines 91-98
RouteStage_NoPlanCheck(in) ==
    LET session == SessionOf(in)
        community == CommunityOf(in)
    IN  IF in.userId = NoUser THEN "auth"
        ELSE IF in.email = NoStr THEN "email"
        ELSE IF ~env.stripeKey THEN "config"
        ELSE IF in.sessionId = NoStr \/ in.spaceId = Null \/ in.communitySlug = NoStr
             THEN "body"
        ELSE IF session = Threw THEN "retrieve"
        ELSE IF session.client_reference_id # in.userId THEN "mismatch"
        ELSE IF session.payment_status # "paid" THEN "unpaid"
        ELSE IF session.subscription = NoStr \/ session.customer = NoStr
                \/ session.price = NoStr THEN "data"
        ELSE IF community = Threw THEN "lookup"
        ELSE IF community = NoRow \/ community.circleSpaceId # in.spaceId
             THEN "community"
        ELSE "provision"

\* The stage at which the route answers, in the order of the code; "provision"
\* when every check passed.
RouteStage(in) ==
    LET session == SessionOf(in)
        community == CommunityOf(in)
    IN  IF in.userId = NoUser THEN "auth"
        ELSE IF in.email = NoStr THEN "email"
        ELSE IF ~env.stripeKey THEN "config"
        ELSE IF in.sessionId = NoStr \/ in.spaceId = Null \/ in.communitySlug = NoStr
             THEN "body"
        ELSE IF session = Threw THEN "retrieve"
        ELSE IF session.client_reference_id # in.userId THEN "mismatch"
        ELSE IF session.payment_status # "paid" THEN "unpaid"
        ELSE IF session.subscription = NoStr \/ session.customer = NoStr
                \/ session.price = NoStr THEN "data"
        ELSE IF community = Threw THEN "lookup"
        ELSE IF community = NoRow \/ community.circleSpaceId # in.spaceId
             THEN "community"
        ELSE IF PlanTypeOf(session.price, community) = NoStr THEN "plan"
        ELSE "provision"

StageOrder ==
    << "auth", "email", "config", "body", "retrieve", "mismatch", "unpaid",
       "data", "lookup", "community", "plan", "provision" >>

StageIndex(stage) == CHOOSE i \in DOMAIN StageOrder : StageOrder[i] = stage

\* the answer the route gives without provisioning
RejectResponse(stage, in) ==
    CASE stage = "auth"      -> Response(401, FALSE, "Authentication required", NoUrl)
      [] stage = "email"     -> Response(400, FALSE, "Could not verify your user session details", NoUrl)
      [] stage = "config"    -> Response(500, FALSE, "Payment processing is currently unavailable", NoUrl)
      [] stage = "body"      -> Response(400, FALSE, "Missing required parameters", NoUrl)
      [] stage = "retrieve"  -> Response(500, FALSE, GatewayMessage(in), NoUrl)
      [] stage = "mismatch"  -> Response(400, FALSE, "Invalid session or user mismatch.", NoUrl)
      [] stage = "unpaid"    -> Response(400, FALSE, "Payment status is not valid.", NoUrl)
      [] stage = "data"      -> Response(400, FALSE, "Missing critical subscription/customer/price data", NoUrl)
      [] stage = "lookup"    -> Response(500, FALSE, "raw database error message", NoUrl)
      [] stage = "community" -> Response(400, FALSE, "Community data mismatch or community not found.", NoUrl)
      [] stage = "plan"      -> Response(400, FALSE, "Could not determine plan type from Stripe price ID.", NoUrl)

\* What the handler has read of its input when it answers at `stage`: inputs
\* behind the answering check were never fetched.
Observed(in, stage) ==
    LET k == StageIndex(stage)
    IN  [ userId |-> in.userId,
          email |-> IF k >= 2 THEN in.email ELSE NoStr,
          body |-> IF k >= 4
                   THEN [sessionId |-> in.sessionId, spaceId |-> in.spaceId,
                         communitySlug |-> in.communitySlug]
                   ELSE Unread,
          session |-> IF k >= 5 THEN SessionOf(in) ELSE Unread,
          community |-> IF k >= 9 THEN CommunityOf(in) ELSE Unread ]

\* the arguments the route passes to provisionCircleAccess
ProvisionArgs(in) ==
    LET session == SessionOf(in)
        community == CommunityOf(in)
    IN  [ platformUserId |-> in.userId, userEmail |-> in.email,
          spaceId |-> in.spaceId, communityId |-> community.id,
          stripeSubscriptionId |-> session.subscription,
          stripeCustomerId |-> session.customer,
          planType |-> PlanTypeOf(session.price, community) ]

NoArgs == [none |-> TRUE]


\* --------------------------------------------- forward path: request records
NoResult == [kind |-> "none", success |-> FALSE, error |-> NoStr]
Returned(success, error) == [kind |-> "returned", success |-> success, error |-> error]
Raised == [kind |-> "raised", success |-> FALSE, error |-> NoStr]
NoResponse == Response(Null, FALSE, NoStr, NoUrl)
NoCalls == [search |-> 0, create |-> 0, attach |-> 0]
NoBody == [none |-> TRUE]
\* provision.ts lines 139-144 and 182-188: the body of POST community_members
CreateBody(a) == [email |-> a.userEmail, skip_invitation |-> TRUE]

IdleForward ==
    [ pc |-> "idle", req |-> Unread, args |-> NoArgs,
      cachedId |-> Null,       \* userRecord.circleCommunityMemberId
      memberId |-> Null,       \* circleCommunityMemberId of the invocation
      exists |-> FALSE,        \* circleMemberExists
      now |-> Null,            \* new Date() of lines 95 / 104
      subRowId |-> Null,       \* subscription.id returned by the upsert
      attachId |-> Null,       \* community_member_id sent to space_members
      attachError |-> NoError, \* addError, when the attach call raised
      searchError |-> NoError, \* searchError, when the search call raised
      createBody |-> NoBody,   \* body of the last POST community_members
      resubmit |-> FALSE,      \* the session's subscription was stored before
      priorStatus |-> NoStr,   \* ... and with this status
      calls |-> NoCalls,       \* community-platform calls of this invocation
      writes |-> 0,            \* database writes of this invocation
      thrown |-> {},           \* the calls of this invocation that raised
      result |-> NoResult,     \* what provisionCircleAccess gave its caller
      response |-> NoResponse ]

\* route.ts lines 112-131: the answer built from provisionCircleAccess's result
RouteResponse(result, spaceId) ==
    IF result.kind = "raised"
    THEN Response(500, FALSE, "raw provisioning error message", NoUrl)
    ELSE IF ~result.success
    THEN Response(500, FALSE,
                  IF result.error # NoStr THEN result.error
                  ELSE "Failed to provision Circle access.", NoUrl)
    ELSE Response(200, TRUE, NoStr, <<"/platform-space/", spaceId>>)

Mark(l, step) == [l EXCEPT !.thrown = @ \cup {step}]

Complete(l, result) ==
    [l EXCEPT !.pc = "done", !.result = result,
              !.response = RouteResponse(result, l.args.spaceId)]

\* the outer catch re-raising instead of returning the failure result
MainCatch_Rethrow(l, error) == Complete(l, Raised)

\* provision.ts lines 253-261: the outer catch turns every exception raised in
\* the body into the generic failure result.
MainCatch(l, error) ==
    Complete(l, Returned(FALSE, "Error provisioning Circle access"))

\* provision.ts lines 250-251
ReturnSuccess(l) == Complete(l, Returned(TRUE, NoStr))

\* provision.ts lines 152-172: catch (searchError) around search, the first
\* creation call and the two cache writes.
hasStatusCode(error) == error.status # Null

\* isNotFoundError looking at the status only
isNotFoundError_StatusOnly(error) ==
    hasStatusCode(error) /\ error.status = 404

isNotFoundError(error) ==
    \/ hasStatusCode(error) /\ error.status = 404
    \/ includes(error.detailsMessage, S_not_found)

\* provision.ts lines 175-207: after the lookup block
AfterCreate(l) ==
    IF l.memberId = Null
    THEN MainCatch(l, DbError)
    ELSE [l EXCEPT !.pc = "attach"]

AfterResolve(l) ==
    IF ~l.exists THEN [l EXCEPT !.pc = "create2"] ELSE AfterCreate(l)

SearchCatch(l, error) ==
    IF isNotFoundError(error)
    THEN AfterResolve([l EXCEPT !.exists = FALSE])
    ELSE MainCatch(l, error)

\* alreadyMember matching the platform's messages without lowercasing them
alreadyMember_CaseSensitive(error) ==
    \/ includes(error.message, S_already_been_taken)
    \/ includes(error.message, S_already_a_member)
    \/ includes(error.detailsMessage, S_already_been_taken)
    \/ includes(error.detailsMessage, S_already_a_member)

\* provision.ts lines 221-248: catch (addError) around the attach call
alreadyMember(error) ==
    LET msg == toLowerCase(error.message)
        detailsMsg == toLowerCase(error.detailsMessage)
    IN  \/ includes(msg, S_already_been_taken)
        \/ includes(msg, S_already_a_member)
        \/ includes(detailsMsg, S_already_been_taken)
        \/ includes(detailsMsg, S_already_a_member)

AttachCatch(l, error) ==
    IF alreadyMember(error) THEN ReturnSuccess(l)
    ELSE [l EXCEPT !.pc = "markAttachFailed"]

\* Resolve searching the platform whatever the User row caches
Resolve_AlwaysSearch(l, cachedId) == [l EXCEPT !.pc = "search"]

\* provision.ts lines 109-119: trust the cached id, else search
Resolve(l, cachedId) ==
    IF cachedId # Null
    THEN AfterResolve([l EXCEPT !.memberId = cachedId, !.exists = TRUE])
    ELSE [l EXCEPT !.pc = "search"]


\* ------------------------------------------------------ forward path: steps
ForwardInputCandidates ==
    { in \in [ userId : UserIds \cup {NoUser},
               email : Emails \cup {NoStr},
               sessionId : SessionIds \cup {"cs_none", NoStr},
               spaceId : SpaceIds \cup {Null},
               communitySlug : {"solas-nua", "nope", NoStr},
               gateway : {"ok"} \cup GatewayErrors,
               lookup : {"ok", "fail"} ] :
        /\ in.userId = NoUser => in.email = NoStr
        /\ in.userId # NoUser => in.email \in {EmailOf(in.userId), NoStr}
        \* what the handler never gets to read is as in a valid confirmation
        /\ in.email = NoStr =>
              /\ in.sessionId = "cs_1" /\ in.spaceId = 2222222
              /\ in.communitySlug = "solas-nua"
        /\ (in.sessionId = NoStr \/ in.spaceId = Null \/ in.communitySlug = NoStr)
              => in.gateway = "ok" /\ in.lookup = "ok"
        /\ in.sessionId = NoStr =>
              in.spaceId = 2222222 /\ in.communitySlug = "solas-nua"
        /\ in.spaceId = Null =>
              in.sessionId = "cs_1" /\ in.communitySlug = "solas-nua"
        /\ in.communitySlug = NoStr =>
              in.sessionId = "cs_1" /\ in.spaceId = 2222222
        /\ (in.gateway # "ok"
            \/ in.sessionId \in {"cs_none", "cs_unpaid", "cs_nodata"}) =>
              /\ in.spaceId \in {2222222, Null}
              /\ in.communitySlug \in {"solas-nua", NoStr}
              /\ in.lookup = "ok"
        /\ in.email = NoStr => in.gateway = "ok" /\ in.lookup = "ok" }

\* the requests submitted, as an enumerated set
ForwardInputs == { in : in \in ForwardInputCandidates }

\* no request and no delivery is in flight
AllIdle == \A q \in Procs : fwd[q].pc = "idle" /\ hook[q].pc = "idle"

\* the requests, deliveries and configuration changes in flight
InFlight ==
    Cardinality({q \in Procs : fwd[q].pc # "idle"})
    + Cardinality({q \in Procs : hook[q].pc # "idle"})
    + Cardinality({q \in Procs : idp[q].pc # "idle"})
    + (IF admin.pc # "idle" THEN 1 ELSE 0)
    + (IF seed.pc # "idle" THEN 1 ELSE 0)

\* the requests, deliveries, configuration changes and script runs so far
Received == nForward + nHooks + admin.n + seed.n

\* The slot a new request is kept in: the first free one.  Slots are the
\* model's bookkeeping; a request starts whatever the others are doing.
FreeSlot(slots, p) ==
    /\ slots[p].pc = "idle"
    /\ \A q \in Procs : q < p => slots[q].pc # "idle"

MayStart(slots, p) ==
    FreeSlot(slots, p) /\ InFlight < MaxInFlight /\ Received < MaxOps

\* POST /api/provision-access, lines 11-110: authenticate, retrieve the
\* session, look the community up, and either answer or enter provisioning.
Submit(p, in) ==
    /\ MayStart(fwd, p)
    /\ LET stage == RouteStage(in)
           req == Observed(in, stage)
       IN  fwd' = [fwd EXCEPT ![p] =
               IF stage = "provision"
               THEN [IdleForward EXCEPT
                       !.pc = "upsertUser", !.req = req,
                       !.args = ProvisionArgs(in),
                       !.resubmit =
                           SubByStripeId(SessionOf(in).subscription) # {},
                       !.priorStatus =
                           StatusOf(SubByStripeId(SessionOf(in).subscription))]
               ELSE [IdleForward EXCEPT
                       !.pc = "done", !.req = req,
                       !.response = RejectResponse(stage, in)]]
    /\ nForward' = nForward + 1
    /\ UNCHANGED << env, users, communities, subs, members, spaceMembers,
                    hook, nHooks, createCalls >>

\* a request of any caller with any body
StartForward(p) ==
    /\ nForward < MaxForward
    /\ MayStart(fwd, p)
    /\ \E in \in ForwardInputs : Submit(p, in)

\* UpsertUser carrying on to the Subscription upsert after the write raised
UpsertUser_FailureIgnored(p) ==
    LET l == fwd[p] a == l.args IN
    /\ l.pc = "upsertUser"
    /\ \/ /\ users' = UserUpsert(a.platformUserId, a.userEmail, a.stripeCustomerId)
          /\ fwd' = [fwd EXCEPT ![p] =
                       [l EXCEPT !.pc = "upsertSub", !.writes = @ + 1,
                                 !.now = nForward,
                                 !.cachedId = users'[a.platformUserId]
                                                .circleCommunityMemberId]]
       \/ /\ fwd' = [fwd EXCEPT ![p] =
                       [Mark(l, "upsertUser") EXCEPT !.pc = "upsertSub",
                                                     !.now = nForward]]
          /\ UNCHANGED users
    /\ UNCHANGED << env, communities, subs, members, spaceMembers,
                    hook, nForward, nHooks, createCalls >>

\* provision.ts lines 64-86; when the upsert has answered, the arguments of
\* the Subscription upsert are built (lines 89-107) and with them new Date()
UpsertUser(p) ==
    LET l == fwd[p] a == l.args IN
    /\ l.pc = "upsertUser"
    /\ \/ /\ users' = UserUpsert(a.platformUserId, a.userEmail, a.stripeCustomerId)
          /\ fwd' = [fwd EXCEPT ![p] =
                       [l EXCEPT !.pc = "upsertSub", !.writes = @ + 1,
                                 !.now = nForward,
                                 !.cachedId = users'[a.platformUserId]
                                                .circleCommunityMemberId]]
       \/ /\ fwd' = [fwd EXCEPT ![p] = MainCatch(Mark(l, "upsertUser"), DbError)]
          /\ UNCHANGED users
    /\ UNCHANGED << env, communities, subs, members, spaceMembers,
                    hook, nForward, nHooks, createCalls >>

\* provision.ts lines 88-119: the Subscription upsert answers; startDate is
\* the date taken when the call was issued
UpsertSub(p) ==
    LET l == fwd[p] a == l.args IN
    /\ l.pc = "upsertSub"
    /\ \/ /\ ~SubUpsertConflicts(a.platformUserId, a.communityId,
                                 a.stripeSubscriptionId)
          /\ subs' = SubUpsert(a.platformUserId, a.communityId,
                               a.stripeSubscriptionId, a.planType, l.now)
          /\ LET row == CHOOSE r \in subs' :
                           r.userId = a.platformUserId
                           /\ r.communityId = a.communityId
             IN  fwd' = [fwd EXCEPT ![p] =
                    Resolve([l EXCEPT !.subRowId = row.id, !.writes = @ + 1],
                            l.cachedId)]
       \/ /\ fwd' = [fwd EXCEPT ![p] = MainCatch(Mark(l, "upsertSub"), DbError)]
          /\ UNCHANGED subs
    /\ UNCHANGED << env, users, communities, members, spaceMembers,
                    hook, nForward, nHooks, createCalls >>


CountUp(n) == IF n < MaxCount THEN n + 1 ELSE n

\* The community platform's answers to POST community_members: the new
\* member's id, either at the top of the body or under community_member.
CreateShapes == {"flat", "nested"}

\* provision.ts lines 120-132: GET community_members/search
Search(p) ==
    LET l == fwd[p] a == l.args
        c == [l EXCEPT !.calls.search = @ + 1] IN
    /\ l.pc = "search"
    /\ \/ /\ a.userEmail \in members          \* a non-empty community_members
          /\ fwd' = [fwd EXCEPT ![p] =
                       [c EXCEPT !.exists = TRUE,
                                 !.memberId = PlatformMemberId(a.userEmail),
                                 !.pc = "cacheFound"]]
       \/ /\ a.userEmail \notin members       \* an empty or absent list
          /\ fwd' = [fwd EXCEPT ![p] = [c EXCEPT !.pc = "create1"]]
       \/ \E e \in CircleErrors :
            fwd' = [fwd EXCEPT ![p] =
                  SearchCatch(Mark([c EXCEPT !.searchError = e], "search"), e)]
    /\ UNCHANGED << env, users, communities, subs, members, spaceMembers,
                    hook, nForward, nHooks, createCalls >>

\* provision.ts line 132: cache the id that the search returned
CacheFound(p) ==
    LET l == fwd[p] a == l.args IN
    /\ l.pc = "cacheFound"
    /\ \/ /\ users' = UserSetMemberId(a.platformUserId, l.memberId)
          /\ fwd' = [fwd EXCEPT ![p] = AfterResolve([l EXCEPT !.writes = @ + 1])]
       \/ /\ fwd' = [fwd EXCEPT ![p] = SearchCatch(Mark(l, "cacheFound"), DbError)]
          /\ UNCHANGED users
    /\ UNCHANGED << env, communities, subs, members, spaceMembers,
                    hook, nForward, nHooks, createCalls >>

\* provision.ts lines 134-147: POST community_members inside the lookup
\* block; the id is read from the top of the body.
Create1(p) ==
    LET l == fwd[p] a == l.args
        c == [l EXCEPT !.calls.create = @ + 1, !.createBody = CreateBody(a)] IN
    /\ l.pc = "create1"
    /\ createCalls' = [createCalls EXCEPT ![a.userEmail] = CountUp(@)]
    /\ \/ \E shape \in CreateShapes :
            /\ members' = members \cup {a.userEmail}
            /\ fwd' = [fwd EXCEPT ![p] =
                  [c EXCEPT !.memberId = IF shape = "flat"
                                         THEN PlatformMemberId(a.userEmail)
                                         ELSE Null,
                            !.pc = "cache1"]]
       \/ \E e \in CircleErrors :
            /\ fwd' = [fwd EXCEPT ![p] = SearchCatch(Mark(c, "create1"), e)]
            /\ UNCHANGED members
    /\ UNCHANGED << env, users, communities, subs, spaceMembers,
                    hook, nForward, nHooks >>

\* provision.ts line 149: cache the id of the member just created
Cache1(p) ==
    LET l == fwd[p] a == l.args IN
    /\ l.pc = "cache1"
    /\ \/ /\ users' = UserSetMemberId(a.platformUserId, l.memberId)
          /\ fwd' = [fwd EXCEPT ![p] = AfterResolve([l EXCEPT !.writes = @ + 1])]
       \/ /\ fwd' = [fwd EXCEPT ![p] = SearchCatch(Mark(l, "cache1"), DbError)]
          /\ UNCHANGED users
    /\ UNCHANGED << env, communities, subs, members, spaceMembers,
                    hook, nForward, nHooks, createCalls >>

\* provision.ts lines 176-191: POST community_members after the lookup
\* block; the id is read from community_member, and reading it from a body
\* without community_member raises inside the try.
Create2(p) ==
    LET l == fwd[p] a == l.args
        c == [l EXCEPT !.calls.create = @ + 1, !.createBody = CreateBody(a)] IN
    /\ l.pc = "create2"
    /\ createCalls' = [createCalls EXCEPT ![a.userEmail] = CountUp(@)]
    /\ \/ \E shape \in CreateShapes :
            /\ members' = members \cup {a.userEmail}
            /\ fwd' = [fwd EXCEPT ![p] =
                  IF shape = "nested"
                  THEN [c EXCEPT !.memberId = PlatformMemberId(a.userEmail),
                                 !.pc = "cache2"]
                  ELSE [Mark(c, "readId") EXCEPT !.pc = "markCreateFailed"]]
       \/ \E e \in CircleErrors :
            /\ fwd' = [fwd EXCEPT ![p] =
                         [Mark(c, "create2") EXCEPT !.pc = "markCreateFailed"]]
            /\ UNCHANGED members
    /\ UNCHANGED << env, users, communities, subs, spaceMembers,
                    hook, nForward, nHooks >>

\* provision.ts line 193, inside the try of the second creation
Cache2(p) ==
    LET l == fwd[p] a == l.args IN
    /\ l.pc = "cache2"
    /\ \/ /\ users' = UserSetMemberId(a.platformUserId, l.memberId)
          /\ fwd' = [fwd EXCEPT ![p] = AfterCreate([l EXCEPT !.writes = @ + 1])]
       \/ /\ fwd' = [fwd EXCEPT ![p] =
                       [Mark(l, "cache2") EXCEPT !.pc = "markCreateFailed"]]
          /\ UNCHANGED users
    /\ UNCHANGED << env, communities, subs, members, spaceMembers,
                    hook, nForward, nHooks, createCalls >>

\* provision.ts lines 194-201: catch (createError): mark and re-raise
MarkCreateFailed(p) ==
    LET l == fwd[p] IN
    /\ l.pc = "markCreateFailed"
    /\ \/ /\ SubById(l.subRowId) # {}
          /\ subs' = SubUpdate(l.subRowId, [status |-> "provisioning_failed"])
          /\ fwd' = [fwd EXCEPT ![p] = MainCatch([l EXCEPT !.writes = @ + 1], DbError)]
       \/ /\ fwd' = [fwd EXCEPT ![p] = MainCatch(Mark(l, "markCreateFailed"), DbError)]
          /\ UNCHANGED subs
    /\ UNCHANGED << env, users, communities, members, spaceMembers,
                    hook, nForward, nHooks, createCalls >>

\* provision.ts lines 209-248: POST space_members; the platform adds the
\* member to the space, or answers with an error of its choice
Attach(p) ==
    LET l == fwd[p] a == l.args
        c == [l EXCEPT !.calls.attach = @ + 1, !.attachId = l.memberId]
        key == <<a.userEmail, a.spaceId>> IN
    /\ l.pc = "attach"
    /\ \/ /\ spaceMembers' = spaceMembers \cup {key}
          /\ fwd' = [fwd EXCEPT ![p] = ReturnSuccess(c)]
       \/ \E e \in CircleErrors :
            /\ fwd' = [fwd EXCEPT ![p] =
                  AttachCatch(Mark([c EXCEPT !.attachError = e], "attach"), e)]
            /\ UNCHANGED spaceMembers
    /\ UNCHANGED << env, users, communities, subs, members,
                    hook, nForward, nHooks, createCalls >>

\* provision.ts lines 240-247: mark and re-raise
MarkAttachFailed(p) ==
    LET l == fwd[p] IN
    /\ l.pc = "markAttachFailed"
    /\ \/ /\ SubById(l.subRowId) # {}
          /\ subs' = SubUpdate(l.subRowId, [status |-> "provisioning_failed"])
          /\ fwd' = [fwd EXCEPT ![p] = MainCatch([l EXCEPT !.writes = @ + 1], DbError)]
       \/ /\ fwd' = [fwd EXCEPT ![p] = MainCatch(Mark(l, "markAttachFailed"), DbError)]
          /\ UNCHANGED subs
    /\ UNCHANGED << env, users, communities, members, spaceMembers,
                    hook, nForward, nHooks, createCalls >>

\* the response is sent; the slot is free again
FinishForward(p) ==
    /\ fwd[p].pc = "done"
    /\ fwd' = [fwd EXCEPT ![p] = IdleForward]
    /\ UNCHANGED << env, users, communities, subs, members, spaceMembers,
                    hook, nForward, nHooks, createCalls >>


\* ----------------------------------------- reverse path: the webhook's checks
\* src/app/api/webhooks/stripe/route.ts, POST.  A delivery is
\*   signature  "none" | "bad" | "good"  (header missing / fails verification)
\*   type       the event type
\*   subId      the subscription the event is about (NoStr if it names none)
\*   status, cancel_at_period_end, cancel_at   of a subscription.updated event
EventTypes ==
    { "customer.subscription.deleted", "customer.subscription.updated",
      "invoice.payment_failed", "charge.succeeded" }
GatewayStatuses == {"active", "past_due", "unpaid", "canceled", "incomplete"}
CancelAts == {Null, 2}            \* seconds; Null when the gateway sends none
EventSubIds == {"sub_1", "sub_9"}   \* a stored subscription and a foreign one

NoTarget == [none |-> TRUE]
Target(subId, newStatus, endDateMs) ==
    [stripeSubscriptionId |-> subId, newStatus |-> newStatus, endDateMs |-> endDateMs]

RecognizedStatuses == {"active", "past_due", "unpaid", "canceled"}

\* EndDateOf passing the gateway's seconds on without converting them
EndDateOf_Seconds(evt) ==
    IF evt.cancel_at_period_end THEN evt.cancel_at ELSE Null

\* lines 135-136
EndDateOf(evt) ==
    LET cancelAtSeconds == IF evt.cancel_at_period_end THEN evt.cancel_at ELSE Null
    IN  IF cancelAtSeconds # Null THEN cancelAtSeconds * 1000 ELSE Null

\* lines 124-170: the switch on the event type
Dispatch(evt) ==
    CASE evt.type = "customer.subscription.deleted" ->
            Target(evt.subId, "canceled", Null)
      [] evt.type = "customer.subscription.updated" ->
            IF evt.status \in RecognizedStatuses
            THEN Target(evt.subId, evt.status, EndDateOf(evt))
            ELSE NoTarget
      [] evt.type = "invoice.payment_failed" ->
            IF evt.subId # NoStr THEN Target(evt.subId, "past_due", Null)
            ELSE NoTarget
      [] OTHER -> NoTarget

\* HookGate constructing the event without verifying the signature
HookGate_Unverified(evt) ==
    IF ~(env.stripeKey /\ env.webhookSecret) THEN 500
    ELSE IF evt.signature = "none" THEN 400
    ELSE 200

\* lines 98-120: configuration, signature header, signature verification
HookGate(evt) ==
    IF ~(env.stripeKey /\ env.webhookSecret) THEN 500
    ELSE IF evt.signature = "none" THEN 400
    ELSE IF evt.signature = "bad" THEN 400
    ELSE 200

HookInputCandidates ==
    { e \in [ signature : {"none", "bad", "good"},
              type : EventTypes,
              subId : EventSubIds \cup {NoStr},
              status : GatewayStatuses,
              cancel_at_period_end : BOOLEAN,
              cancel_at : CancelAts ] :
        \* fields an event of this type does not carry are left at a default
        /\ e.type # "customer.subscription.updated" =>
              e.status = "active" /\ ~e.cancel_at_period_end /\ e.cancel_at = Null
        /\ e.type = "charge.succeeded" => e.subId = NoStr
        /\ e.subId = "sub_9" => ~e.cancel_at_period_end /\ e.cancel_at = Null
        /\ e.type \in {"customer.subscription.deleted",
                       "customer.subscription.updated"} => e.subId # NoStr }

\* the deliveries received, as an enumerated set
HookInputs == { e : e \in HookInputCandidates }

\* What the handler has of the delivery: the payload of a delivery that fails
\* the gate is never parsed into an event.
UnparsedEvent(signature) ==
    [signature |-> signature, type |-> NoStr, subId |-> NoStr, status |-> NoStr,
     cancel_at_period_end |-> FALSE, cancel_at |-> Null]

ObservedEvent(evt, gate) ==
    IF gate = 200 THEN evt ELSE UnparsedEvent(evt.signature)

NoCallsHook == [lookup |-> 0, write |-> 0, delete |-> 0]
NoFound == [id |-> Null, status |-> NoStr, endDate |-> Null,
            email |-> NoStr, circleSpaceId |-> Null]

IdleHook ==
    [ pc |-> "idle", evt |-> UnparsedEvent(NoStr), target |-> NoTarget,
      sub |-> NoFound,         \* the row found, with its user and community
      known |-> FALSE,         \* the lookup found a row
      needsUpdate |-> FALSE,
      data |-> << >>,          \* dataToUpdate
      deleteArg |-> << >>,     \* <<email, space_id>> sent with the DELETE
      calls |-> NoCallsHook,
      thrown |-> {},           \* the calls of this delivery that raised
      status |-> Null ]        \* the HTTP status answered

Answer(h, status) == [h EXCEPT !.pc = "done", !.status = status]

\* lines 31-45: what differs from the stored row
DataToUpdate(row, newStatus, endDateMs) ==
    LET statusPart == IF row.status # newStatus
                      THEN [status |-> newStatus] ELSE << >>
    IN  IF row.endDate # endDateMs
        THEN IF row.status # newStatus
             THEN [status |-> newStatus, endDate |-> endDateMs]
             ELSE [endDate |-> endDateMs]
        ELSE statusPart

\* isEnded counting a late payment as the end of the subscription
isEnded_WithPastDue(newStatus) == newStatus \in {"canceled", "unpaid", "past_due"}

\* line 58
isEnded(newStatus) == newStatus \in {"canceled", "unpaid"}

\* lines 57-83 entered after the status write (or without one)
AfterUpdate(h) ==
    IF isEnded(h.target.newStatus)
    THEN [h EXCEPT !.pc = "revoke"]
    ELSE Answer(h, 200)


\* ------------------------------------------------------ reverse path: steps
\* POST /api/webhooks/stripe, lines 97-171: verify, then dispatch
ReceiveEvent(h, evt) ==
    /\ MayStart(hook, h)
    /\ LET gate == HookGate(evt)
           target == Dispatch(evt)
           d == [IdleHook EXCEPT !.evt = ObservedEvent(evt, gate)]
       IN  hook' = [hook EXCEPT ![h] =
                      IF gate # 200 THEN Answer(d, gate)
                      ELSE IF target = NoTarget THEN Answer(d, 200)
                      ELSE [d EXCEPT !.pc = "lookup", !.target = target]]
    /\ UNCHANGED << env, users, communities, subs, members, spaceMembers,
                    fwd, nForward, createCalls >>

\* a delivery of any event, signed or not
ReceiveHook(h) ==
    /\ nHooks < MaxHooks
    /\ MayStart(hook, h)
    /\ \E evt \in HookInputs : ReceiveEvent(h, evt)
    /\ nHooks' = nHooks + 1

\* OnLookup treating an unknown subscription as a failure of the delivery
OnLookup_UnknownFails(d, found) ==
    IF found = {}
    THEN Answer(d, 500)
    ELSE LET row == CHOOSE r \in found : TRUE
             t == d.target
             data == DataToUpdate(row, t.newStatus, t.endDateMs)
             g == [d EXCEPT
                     !.known = TRUE,
                     !.sub = [id |-> row.id, status |-> row.status,
                              endDate |-> row.endDate,
                              email |-> users[row.userId].email,
                              circleSpaceId |->
                                  communities[row.communityId].circleSpaceId],
                     !.data = data,
                     !.needsUpdate = (data # << >>)]
         IN  IF data # << >> THEN [g EXCEPT !.pc = "update"]
             ELSE AfterUpdate(g)

\* lines 16-55: what handleSubscriptionChange does with the rows that
\* findUnique({ where: { stripeSubscriptionId } }) matched
OnLookup(d, found) ==
    IF found = {}
    THEN Answer(d, 200)                    \* lines 24-29: unknown, ignore
    ELSE LET row == CHOOSE r \in found : TRUE
             t == d.target
             data == DataToUpdate(row, t.newStatus, t.endDateMs)
             g == [d EXCEPT
                     !.known = TRUE,
                     !.sub = [id |-> row.id, status |-> row.status,
                              endDate |-> row.endDate,
                              email |-> users[row.userId].email,
                              circleSpaceId |->
                                  communities[row.communityId].circleSpaceId],
                     !.data = data,
                     !.needsUpdate = (data # << >>)]
         IN  IF data # << >> THEN [g EXCEPT !.pc = "update"]
             ELSE AfterUpdate(g)

MarkHook(d, step) == [d EXCEPT !.thrown = @ \cup {step}]

\* handleSubscriptionChange lines 15-55: find the row, decide what to write
HookLookup(h) ==
    LET \* handleSubscriptionChange has the three arguments, not the event
        d == [hook[h] EXCEPT !.calls.lookup = @ + 1,
                             !.evt = UnparsedEvent(hook[h].evt.signature)] IN
    /\ hook[h].pc = "lookup"
    /\ \/ hook' = [hook EXCEPT ![h] =
                     OnLookup(d, SubByStripeId(d.target.stripeSubscriptionId))]
       \/ hook' = [hook EXCEPT ![h] =
                     Answer(MarkHook(d, "lookup"), 500)]   \* findUnique raised
    /\ UNCHANGED << env, users, communities, subs, members, spaceMembers,
                    fwd, nForward, nHooks, createCalls >>

\* HookUpdate carrying on to the revocation after the write raised
HookUpdate_ErrorSwallowed(h) ==
    LET d == hook[h] IN
    /\ d.pc = "update"
    /\ \/ /\ SubById(d.sub.id) # {}
          /\ subs' = SubUpdate(d.sub.id, d.data)
          /\ hook' = [hook EXCEPT ![h] =
                        AfterUpdate([d EXCEPT !.calls.write = @ + 1])]
       \/ /\ hook' = [hook EXCEPT ![h] = AfterUpdate(MarkHook(d, "update"))]
          /\ UNCHANGED subs
    /\ UNCHANGED << env, users, communities, members, spaceMembers,
                    fwd, nForward, nHooks, createCalls >>

\* lines 47-52: the status / end-date write
HookUpdate(h) ==
    LET d == hook[h] IN
    /\ d.pc = "update"
    /\ \/ /\ SubById(d.sub.id) # {}
          /\ subs' = SubUpdate(d.sub.id, d.data)
          /\ hook' = [hook EXCEPT ![h] =
                        AfterUpdate([d EXCEPT !.calls.write = @ + 1])]
       \/ /\ hook' = [hook EXCEPT ![h] =
                        Answer(MarkHook(d, "update"), 500)]  \* the update raised
          /\ UNCHANGED subs
    /\ UNCHANGED << env, users, communities, members, spaceMembers,
                    fwd, nForward, nHooks, createCalls >>

\* HookRevoke letting the platform's failure escape to the webhook handler
HookRevoke_FailureRaises(h) ==
    LET key == <<hook[h].sub.email, hook[h].sub.circleSpaceId>>
        d == [hook[h] EXCEPT !.calls.delete = @ + 1, !.deleteArg = key] IN
    /\ hook[h].pc = "revoke"
    /\ \/ /\ spaceMembers' = spaceMembers \ {key}
          /\ hook' = [hook EXCEPT ![h] = Answer(d, 200)]
       \/ /\ hook' = [hook EXCEPT ![h] = Answer(MarkHook(d, "revoke"), 500)]
          /\ UNCHANGED spaceMembers
    /\ UNCHANGED << env, users, communities, subs, members,
                    fwd, nForward, nHooks, createCalls >>

\* lines 57-70: DELETE space_members by email and space id
HookRevoke(h) ==
    LET key == <<hook[h].sub.email, hook[h].sub.circleSpaceId>>
        d == [hook[h] EXCEPT !.calls.delete = @ + 1, !.deleteArg = key] IN
    /\ hook[h].pc = "revoke"
    /\ \/ /\ spaceMembers' = spaceMembers \ {key}
          /\ hook' = [hook EXCEPT ![h] = Answer(d, 200)]
       \/ /\ hook' = [hook EXCEPT ![h] =
                        [MarkHook(d, "revoke") EXCEPT
                            !.pc = "markRevocationFailed"]]
          /\ UNCHANGED spaceMembers
    /\ UNCHANGED << env, users, communities, subs, members,
                    fwd, nForward, nHooks, createCalls >>

\* lines 71-81: record the failed revocation, still acknowledge
HookMarkFailed(h) ==
    LET d == hook[h] IN
    /\ d.pc = "markRevocationFailed"
    /\ \/ /\ SubById(d.sub.id) # {}
          /\ subs' = SubUpdate(d.sub.id, [status |-> "access_revocation_failed"])
          /\ hook' = [hook EXCEPT ![h] =
                        Answer([d EXCEPT !.calls.write = @ + 1], 200)]
       \/ /\ hook' = [hook EXCEPT ![h] =
                        Answer(MarkHook(d, "markRevocationFailed"), 500)]  \* the update raised
          /\ UNCHANGED subs
    /\ UNCHANGED << env, users, communities, members, spaceMembers,
                    fwd, nForward, nHooks, createCalls >>

\* the answer is sent
FinishHook(h) ==
    /\ hook[h].pc = "done"
    /\ hook' = [hook EXCEPT ![h] = IdleHook]
    /\ UNCHANGED << env, users, communities, subs, members, spaceMembers,
                    fwd, nForward, nHooks, createCalls >>

\* ---------------------------------------- identity provider (Clerk) webhook
\* src/app/api/webhooks/clerk/route.ts, POST.  A delivery is
\*   headers    the three svix headers are present
\*   signature  "good" | "bad": wh.verify accepts the payload or raises
\*   type       the event type
\*   userId     data.id
\*   email      data.email_addresses[0].email_address (NoStr when the list
\*              is empty or absent)
IdentityEventTypes == {"user.created", "user.updated", "session.created"}

ClerkInputs ==
    { e \in [ headers : BOOLEAN, signature : {"good", "bad"},
              type : IdentityEventTypes, userId : UserIds,
              email : Emails \cup {NoStr} ] :
        e.email \in {EmailOf(e.userId), NoStr} }

\* lines 31-69: svix headers, signing secret, verification
ClerkGate(evt) ==
    IF ~evt.headers THEN 400
    ELSE IF ~env.clerkSecret THEN 500
    ELSE IF evt.signature = "bad" THEN 400
    ELSE 200

\* what the handler has of a delivery that fails the gate
UnverifiedIdentityEvent(evt) ==
    [headers |-> evt.headers, signature |-> evt.signature, type |-> NoStr,
     userId |-> NoStr, email |-> NoStr]

NoIdentityEvent ==
    [headers |-> FALSE, signature |-> NoStr, type |-> NoStr,
     userId |-> NoStr, email |-> NoStr]

NoCallsIdp == [write |-> 0, create |-> 0]

IdleIdp ==
    [ pc |-> "idle", evt |-> NoIdentityEvent,
      memberId |-> Null,       \* circleResponse.id
      createBody |-> NoBody,   \* body of POST community_members
      calls |-> NoCallsIdp,
      thrown |-> {},           \* the calls of this delivery that raised
      status |-> Null ]        \* the HTTP status answered

\* prisma.user.upsert({ where: { id }, create: { id, email, name },
\*                      update: { email, name } }), lines 111-122
ClerkUserUpsert(u, email) ==
    IF users[u] = NoRow
    THEN [users EXCEPT ![u] = [id |-> u, email |-> email,
                               stripeCustomerId |-> NoStr,
                               circleCommunityMemberId |-> Null]]
    ELSE [users EXCEPT ![u] = [@ EXCEPT !.email = email]]

\* lines 129-136: the body of POST community_members of the webhook
InviteBody(email) == [email |-> email, skip_invitation |-> FALSE]

\* lines 71-91: event type and primary email
ClerkStage(evt) ==
    IF evt.type # "user.created" THEN "skip"
    ELSE IF evt.email = NoStr THEN "noEmail"
    ELSE "upsert"

\* POST /api/webhooks/clerk, lines 30-106
ReceiveIdentity(i) ==
    /\ MayStart(idp, i)
    /\ nHooks < MaxHooks
    /\ \E evt \in ClerkInputs :
         LET gate == ClerkGate(evt)
             stage == ClerkStage(evt)
             d == [IdleIdp EXCEPT !.evt = evt] IN
         idp' = [idp EXCEPT ![i] =
                IF gate # 200
                THEN [IdleIdp EXCEPT !.evt = UnverifiedIdentityEvent(evt),
                                     !.pc = "done", !.status = gate]
                ELSE IF stage = "skip" THEN [d EXCEPT !.pc = "done", !.status = 200]
                ELSE IF stage = "noEmail" THEN [d EXCEPT !.pc = "done", !.status = 500]
                ELSE [d EXCEPT !.pc = "upsert"]]
    /\ nHooks' = nHooks + 1
    /\ UNCHANGED << env, users, communities, subs, members, spaceMembers,
                    fwd, hook, nForward, createCalls, feed, admin, attachedTo,
                    seed >>

\* lines 108-124 and 164-168: the User upsert; its failure is the 500
IdentityUpsert(i) ==
    LET d == idp[i] IN
    /\ d.pc = "upsert"
    /\ \/ /\ users' = ClerkUserUpsert(d.evt.userId, d.evt.email)
          /\ idp' = [idp EXCEPT ![i] =
                       [d EXCEPT !.pc = "invite", !.calls.write = @ + 1]]
       \/ /\ idp' = [idp EXCEPT ![i] =
                       [d EXCEPT !.pc = "done", !.status = 500,
                                 !.thrown = @ \cup {"upsert"}]]
          /\ UNCHANGED users
    /\ UNCHANGED << env, communities, subs, members, spaceMembers,
                    fwd, hook, nForward, nHooks, createCalls, feed, admin,
                    attachedTo, seed >>

\* lines 126-157: POST community_members with the invitation enabled; the id
\* is read from the top of the body; a failure is logged and swallowed
IdentityInvite(i) ==
    LET email == idp[i].evt.email
        c == [idp[i] EXCEPT !.calls.create = @ + 1,
                            !.createBody = InviteBody(email)] IN
    /\ idp[i].pc = "invite"
    /\ createCalls' = [createCalls EXCEPT ![email] = CountUp(@)]
    /\ \/ \E shape \in CreateShapes :
            /\ members' = members \cup {email}
            /\ idp' = [idp EXCEPT ![i] =
                      IF shape = "flat"
                      THEN [c EXCEPT !.memberId = PlatformMemberId(email),
                                     !.pc = "storeId"]
                      ELSE [c EXCEPT !.pc = "done", !.status = 200]]
       \/ \E e \in CircleErrors :
            /\ idp' = [idp EXCEPT ![i] =
                         [c EXCEPT !.pc = "done", !.status = 200,
                                   !.thrown = @ \cup {"invite"}]]
            /\ UNCHANGED members
    /\ UNCHANGED << env, users, communities, subs, spaceMembers,
                    fwd, hook, nForward, nHooks, feed, admin, attachedTo,
                    seed >>

\* lines 139-149: store circleResponse.id; the update sits inside the try of
\* the invitation, so its failure is swallowed with the platform's
IdentityStoreId(i) ==
    LET d == idp[i] IN
    /\ d.pc = "storeId"
    /\ \/ /\ users' = UserSetMemberId(d.evt.userId, d.memberId)
          /\ idp' = [idp EXCEPT ![i] =
                       [d EXCEPT !.pc = "done", !.status = 200,
                                 !.calls.write = @ + 1]]
       \/ /\ idp' = [idp EXCEPT ![i] =
                       [d EXCEPT !.pc = "done", !.status = 200,
                                 !.thrown = @ \cup {"storeId"}]]
          /\ UNCHANGED users
    /\ UNCHANGED << env, communities, subs, members, spaceMembers,
                    fwd, hook, nForward, nHooks, createCalls, feed, admin,
                    attachedTo, seed >>

\* the answer is sent
FinishIdentity(i) ==
    /\ idp[i].pc = "done"
    /\ idp' = [idp EXCEPT ![i] = IdleIdp]
    /\ UNCHANGED << env, users, communities, subs, members, spaceMembers,
                    fwd, hook, nForward, nHooks, createCalls, feed, admin,
                    attachedTo, seed >>


\* ------------------------------------- admin: community configuration
\* src/unnamed/part_009, updateCommunityConfiguration.  An update is
\*   isAdmin    the caller is signed in and listed in ADMIN_EMAILS
\*   communityId, circleSpaceId, stripePriceIdMonthly, stripePriceIdAnnually
\*              the form's fields
MaxAdmin == 1        \* configuration updates submitted in one behaviour

NewSpaceId == 3333333           \* a space the admin created on the platform

\* z.string().startsWith('price_'): the first characters of s are the prefix
PricePrefix == "price_"

startsWithPrice(s) ==
    /\ Len(s) >= Len(PricePrefix)
    /\ SubSeq(s, 1, Len(PricePrefix)) = PricePrefix

\* lines 9-14: UpdateCommunitySchema; a price may be null or the empty string
SchemaAccepts(input) ==
    /\ input.communityId > 0
    /\ input.circleSpaceId > 0
    /\ startsWithPrice(input.stripePriceIdMonthly)
          \/ input.stripePriceIdMonthly = NoStr
    /\ startsWithPrice(input.stripePriceIdAnnually)
          \/ input.stripePriceIdAnnually = NoStr

AdminInputCandidates ==
    { i \in [ isAdmin : BOOLEAN,
              communityId : {2, 9, 0},
              circleSpaceId : {2222222, NewSpaceId, 1111111, 0},
              stripePriceIdMonthly :
                  {"price_TEST_MONTHLY_SOLAS", "price_OTHER", NoStr, "monthly"},
              stripePriceIdAnnually : {"price_TEST_ANNUAL_SOLAS"} ] :
        \* a refused form is otherwise the form that moves the space
        /\ (~i.isAdmin \/ i.communityId # 2 \/ i.circleSpaceId \in {0, 1111111}
            \/ i.stripePriceIdMonthly = "monthly") =>
              Cardinality({ 1 : x \in { y \in {1, 2, 3, 4} :
                    \/ y = 1 /\ ~i.isAdmin
                    \/ y = 2 /\ i.communityId # 2
                    \/ y = 3 /\ i.circleSpaceId \in {0, 1111111}
                    \/ y = 4 /\ i.stripePriceIdMonthly = "monthly" } }) = 1
        /\ ~i.isAdmin =>
              /\ i.communityId = 2 /\ i.circleSpaceId = NewSpaceId
              /\ i.stripePriceIdMonthly = "price_TEST_MONTHLY_SOLAS"
        /\ i.communityId # 2 =>
              /\ i.circleSpaceId = NewSpaceId
              /\ i.stripePriceIdMonthly = "price_TEST_MONTHLY_SOLAS"
        /\ i.circleSpaceId \in {0, 1111111} =>
              i.stripePriceIdMonthly = "price_TEST_MONTHLY_SOLAS"
        /\ i.stripePriceIdMonthly = "monthly" => i.circleSpaceId = NewSpaceId }

\* the forms submitted, as an enumerated set
AdminInputs == { i : i \in AdminInputCandidates }

NoInput == [none |-> TRUE]
ActionResult(success, error) == [success |-> success, error |-> error]

IdleAdmin ==
    [ pc |-> "idle", input |-> NoInput,
      n |-> 0,                 \* updates submitted so far
      writes |-> 0,
      result |-> ActionResult(FALSE, NoStr) ]

AdminAnswer(a, result) == [a EXCEPT !.pc = "done", !.result = result]

\* prisma.community.update({ where: { id }, data }), lines 66-74
CommunityUpdate(input) ==
    [communities EXCEPT ![input.communityId] =
        [@ EXCEPT !.circleSpaceId = input.circleSpaceId,
                  !.stripePriceIdMonthly = input.stripePriceIdMonthly,
                  !.stripePriceIdAnnually = input.stripePriceIdAnnually]]

\* the unique index on Community.circleSpaceId rejects the write (P2002)
SpaceIdTaken(input) ==
    \E c \in DOMAIN communities :
        c # input.communityId /\ communities[c].circleSpaceId = input.circleSpaceId

\* lines 41-62: authorization and validation
AdminSubmit ==
    /\ admin.pc = "idle"
    /\ InFlight < MaxInFlight
    /\ Received < MaxOps
    /\ admin.n < MaxAdmin
    /\ \E input \in AdminInputs :
         LET a == [admin EXCEPT !.input = input, !.n = @ + 1] IN
         admin' = IF ~input.isAdmin
                  THEN AdminAnswer(a, ActionResult(FALSE, "Unauthorized."))
                  ELSE IF ~SchemaAccepts(input)
                  THEN AdminAnswer(a, ActionResult(FALSE, "Invalid input data."))
                  ELSE [a EXCEPT !.pc = "update"]
    /\ UNCHANGED << env, users, communities, subs, members, spaceMembers,
                    fwd, hook, nForward, nHooks, createCalls, feed, idp, attachedTo, seed >>

\* lines 64-74 and 85-114: the write, and the catch when it raises
AdminWrite ==
    /\ admin.pc = "update"
    /\ \/ /\ admin.input.communityId \in DOMAIN communities
          /\ ~SpaceIdTaken(admin.input)
          /\ communities' = CommunityUpdate(admin.input)
          /\ admin' = [admin EXCEPT !.pc = "revalidate", !.writes = @ + 1]
       \/ /\ admin.input.communityId \in DOMAIN communities
          /\ SpaceIdTaken(admin.input)
          /\ admin' = AdminAnswer(admin, ActionResult(FALSE,
                 "Failed to update: The value provided for circleSpaceId is already in use by another community."))
          /\ UNCHANGED communities
       \/ /\ admin' = AdminAnswer(admin, ActionResult(FALSE, "raw database error message"))
          /\ UNCHANGED communities
    /\ UNCHANGED << env, users, subs, members, spaceMembers,
                    fwd, hook, nForward, nHooks, createCalls, feed, idp, attachedTo, seed >>

\* lines 78-83: revalidation reads the slug back; if that read raises the
\* catch answers failure although the update is stored
AdminRevalidate ==
    /\ admin.pc = "revalidate"
    /\ \/ admin' = AdminAnswer(admin, ActionResult(TRUE, NoStr))
       \/ admin' = AdminAnswer(admin, ActionResult(FALSE, "raw database error message"))
    /\ UNCHANGED << env, users, communities, subs, members, spaceMembers,
                    fwd, hook, nForward, nHooks, createCalls, feed, idp, attachedTo, seed >>

\* the result is returned to the form
FinishAdmin ==
    /\ admin.pc = "done"
    /\ admin' = [IdleAdmin EXCEPT !.n = admin.n]
    /\ UNCHANGED << env, users, communities, subs, members, spaceMembers,
                    fwd, hook, nForward, nHooks, createCalls, feed, idp, attachedTo, seed >>


\* ----------------------------------------------- the seeding script
\* src/prisma/seed.ts, main() of lines 55-120: both communities are upserted
\* by slug, and the update branch writes the script's space id and price ids
\* over whatever is stored.  (main() of lines 5-41 has update: {} and leaves
\* stored communities as they are; its values are those of SeedCommunities.)
MaxSeed == 1         \* runs of the seeding script in one behaviour

IdleSeed == [pc |-> "idle", n |-> 0]

\* lines 59-65: the values the script writes
ReseedValues ==
    [ c \in {1, 2} |->
        IF c = 1
        THEN [circleSpaceId |-> 1978096,
              stripePriceIdMonthly |-> "price_1RDmDcQcqOoXl2I4Cf403OyY",
              stripePriceIdAnnually |-> "price_1RDmfqQcqOoXl2I4RrltL7GG"]
        ELSE [circleSpaceId |-> 1978085,
              stripePriceIdMonthly |-> "price_1RDmDCQcqOoXl2I4zCfXe25C",
              stripePriceIdAnnually |-> "price_1RDme0QcqOoXl2I4vJpmqfTW"] ]

\* prisma.community.upsert({ where: { slug }, update: {...}, create: {...} })
\* lines 81-97 and 100-116, on a table that holds the community
SeedUpsert(c) ==
    [communities EXCEPT ![c] =
        [@ EXCEPT !.circleSpaceId = ReseedValues[c].circleSpaceId,
                  !.stripePriceIdMonthly = ReseedValues[c].stripePriceIdMonthly,
                  !.stripePriceIdAnnually = ReseedValues[c].stripePriceIdAnnually]]

\* the unique index on Community.circleSpaceId rejects the script's write
SeedSpaceTaken(c) ==
    \E o \in DOMAIN communities :
        o # c /\ communities[o].circleSpaceId = ReseedValues[c].circleSpaceId

\* the script is started
SeedStart ==
    /\ seed.pc = "idle"
    /\ InFlight < MaxInFlight
    /\ Received < MaxOps
    /\ seed.n < MaxSeed
    /\ seed' = [pc |-> "community1", n |-> seed.n + 1]
    /\ UNCHANGED << env, users, communities, subs, members, spaceMembers,
                    fwd, hook, nForward, nHooks, createCalls, feed, idp,
                    admin, attachedTo >>

\* lines 81-97, then 100-116; a write that raises ends the script (122-126)
SeedWrite ==
    /\ seed.pc \in {"community1", "community2"}
    /\ LET c == IF seed.pc = "community1" THEN 1 ELSE 2 IN
       \/ /\ ~SeedSpaceTaken(c)
          /\ communities' = SeedUpsert(c)
          /\ seed' = [seed EXCEPT !.pc = IF c = 1 THEN "community2" ELSE "idle"]
       \/ /\ seed' = [seed EXCEPT !.pc = "idle"]
          /\ UNCHANGED communities
    /\ UNCHANGED << env, users, subs, members, spaceMembers,
                    fwd, hook, nForward, nHooks, createCalls, feed, idp,
                    admin, attachedTo >>


\* ------------------------------------------------------------ specification
\* no event feed is followed
NoFeed == [emitted |-> << >>, log |-> << >>, clean |-> TRUE]

\* After migration and seeding the database holds the two seeded communities
\* and no user
NoUsersYet ==
    /\ users = [u \in UserIds |-> NoRow]
    /\ subs = {}
    /\ members = {}
    /\ spaceMembers = {}

\* u2 subscribed to indc-community (checkout session cs_2) and holds the
\* membership
EarlierSubscription ==
    [id |-> 1, userId |-> "u2", communityId |-> 1, status |-> "active",
     stripeSubscriptionId |-> "sub_2", planType |-> "annual",
     startDate |-> 0, endDate |-> Null]

EarlierSubscriber ==
    /\ users = [u \in UserIds |->
                  IF u = "u2"
                  THEN [id |-> u, email |-> EmailOf(u),
                        stripeCustomerId |-> CustomerOf(u),
                        circleCommunityMemberId |-> PlatformMemberId(EmailOf(u))]
                  ELSE NoRow]
    /\ subs = {EarlierSubscription}
    /\ members = {EmailOf("u2")}
    /\ spaceMembers = {<<EmailOf("u2"), 1111111>>}

\* u1 holds the subscription sub_1 to solas-nua (checkout session cs_1),
\* provisioned and attached: User row with the cached id, Subscription row,
\* member of the community and of the space
FeedSubscription ==
    [id |-> 1, userId |-> "u1", communityId |-> 2, status |-> "active",
     stripeSubscriptionId |-> "sub_1", planType |-> "monthly",
     startDate |-> 0, endDate |-> Null]

ProvisionedSubscriber ==
    /\ users = [u \in UserIds |->
                  IF u = "u1"
                  THEN [id |-> u, email |-> EmailOf(u),
                        stripeCustomerId |-> CustomerOf(u),
                        circleCommunityMemberId |-> PlatformMemberId(EmailOf(u))]
                  ELSE NoRow]
    /\ subs = {FeedSubscription}
    /\ members = {EmailOf("u1")}
    /\ spaceMembers = {<<EmailOf("u1"), 2222222>>}

\* nothing is in flight and nothing was received
NothingReceived ==
    /\ fwd = [p \in Procs |-> IdleForward]
    /\ hook = [h \in Procs |-> IdleHook]
    /\ nForward = 0
    /\ nHooks = 0
    /\ createCalls = [e \in Emails |-> 0]
    /\ idp = [i \in Procs |-> IdleIdp]
    /\ admin = IdleAdmin
    /\ seed = IdleSeed

\* every key of the deployment is set
AllKeysSet == [stripeKey |-> TRUE, webhookSecret |-> TRUE, clerkSecret |-> TRUE]

\* the gateway's keys are not set
GatewayKeysUnset == [stripeKey |-> FALSE, webhookSecret |-> FALSE, clerkSecret |-> TRUE]

Init ==
    /\ env \in {AllKeysSet, GatewayKeysUnset}
    /\ communities = SeedCommunities
    /\ NoUsersYet \/ EarlierSubscriber \/ ProvisionedSubscriber
    /\ NothingReceived
    /\ feed = NoFeed
    /\ attachedTo = {}

ForwardStep(p) ==
    \/ UpsertUser(p)
    \/ UpsertSub(p)
    \/ Search(p)
    \/ CacheFound(p)
    \/ Create1(p)
    \/ Cache1(p)
    \/ Create2(p)
    \/ Cache2(p)
    \/ MarkCreateFailed(p)
    \/ Attach(p)
    \/ MarkAttachFailed(p)
    \/ FinishForward(p)

HookStep(h) ==
    \/ HookLookup(h)
    \/ HookUpdate(h)
    \/ HookRevoke(h)
    \/ HookMarkFailed(h)
    \/ FinishHook(h)

\* requests and deliveries arrive at any time; the steps of those in flight
\* interleave in every order
Next ==
    \/ (\E p \in Procs : StartForward(p)) /\ UNCHANGED aside
    \/ (\E p \in Procs : ForwardStep(p)) /\ UNCHANGED aside
    \/ (\E h \in Procs : ReceiveHook(h)) /\ UNCHANGED aside
    \/ (\E h \in Procs : HookStep(h)) /\ UNCHANGED aside

Spec == Init /\ [][Next]_vars


\* --------------------------------------------- deliveries of an event feed
\* The gateway emits the events of subscription sub_1 in the order
\* feed.emitted and delivers them at least once, in any order; feed.log is
\* the order of the deliveries so far, feed.clean that no call of a finished
\* delivery raised.
MaxEmitted == 2
MaxDeliveries == 3

FeedEvents ==
    { e \in HookInputs :
        e.signature = "good" /\ e.subId = "sub_1" /\ ~e.cancel_at_period_end
        /\ e.cancel_at = Null }

\* u1 is provisioned and every key is configured
Provisioned ==
    /\ env = AllKeysSet
    /\ communities = SeedCommunities
    /\ ProvisionedSubscriber
    /\ NothingReceived
    /\ attachedTo = {}

InitDelivery ==
    /\ Provisioned
    /\ \E emitted \in [1..MaxEmitted -> FeedEvents] :
          feed = [emitted |-> emitted, log |-> << >>, clean |-> TRUE]

\* the gateway delivers the i-th event it emitted, for the first time or again
Deliver(h, i) ==
    /\ Len(feed.log) < MaxDeliveries
    /\ ReceiveEvent(h, feed.emitted[i])
    /\ feed' = [feed EXCEPT !.log = Append(@, i)]
    /\ UNCHANGED << nHooks, idp, admin, seed, attachedTo >>

DeliveryStep(h) ==
    /\ HookLookup(h) \/ HookUpdate(h) \/ HookRevoke(h) \/ HookMarkFailed(h)
    /\ UNCHANGED aside

FinishDelivery(h) ==
    /\ FinishHook(h)
    /\ feed' = [feed EXCEPT !.clean = @ /\ hook[h].thrown = {}]
    /\ UNCHANGED << idp, admin, seed, attachedTo >>

NextDelivery ==
    \/ \E h \in Procs : \E i \in 1..MaxEmitted : Deliver(h, i)
    \/ \E h \in Procs : DeliveryStep(h)
    \/ \E h \in Procs : FinishDelivery(h)

SpecDelivery == InitDelivery /\ [][NextDelivery]_vars


\* ------------------------------------------- two confirmations at a time
\* The success page posts the confirmation of u1's session cs_1 twice (two
\* tabs, a reload): both requests are in flight together and their awaits
\* interleave in every order.  A request that has answered stays answered.
Confirmation ==
    [ userId |-> "u1", email |-> EmailOf("u1"), sessionId |-> "cs_1",
      spaceId |-> 2222222, communitySlug |-> "solas-nua",
      gateway |-> "ok", lookup |-> "ok" ]

InitConcurrent ==
    /\ Init
    /\ env = AllKeysSet
    /\ NoUsersYet \/ EarlierSubscriber

Confirm(p) == Submit(p, Confirmation) /\ UNCHANGED aside

ConfirmStep(p) ==
    /\ \/ UpsertUser(p) \/ UpsertSub(p) \/ Search(p) \/ CacheFound(p)
       \/ Create1(p) \/ Cache1(p) \/ Create2(p) \/ Cache2(p)
       \/ MarkCreateFailed(p) \/ Attach(p) \/ MarkAttachFailed(p)
    /\ UNCHANGED aside

NextConcurrent ==
    \/ \E p \in Procs : Confirm(p)
    \/ \E p \in Procs : ConfirmStep(p)

SpecConcurrent == InitConcurrent /\ [][NextConcurrent]_vars


\* ----------------------------------------- deliveries of identity events
\* the users of Init, the signing secret of the identity webhook set or not
InitIdentity ==
    /\ env \in [stripeKey : {TRUE}, webhookSecret : {TRUE}, clerkSecret : BOOLEAN]
    /\ communities = SeedCommunities
    /\ NoUsersYet \/ EarlierSubscriber
    /\ NothingReceived
    /\ feed = NoFeed
    /\ attachedTo = {}

NextIdentity ==
    \/ \E i \in Procs : ReceiveIdentity(i)
    \/ \E i \in Procs : IdentityUpsert(i)
    \/ \E i \in Procs : IdentityInvite(i)
    \/ \E i \in Procs : IdentityStoreId(i)
    \/ \E i \in Procs : FinishIdentity(i)

SpecIdentity == InitIdentity /\ [][NextIdentity]_vars


\* ------------------- confirmations, deliveries and configuration changes
\* u1 confirms session cs_1 for the space the subscribe page shows, the
\* gateway delivers events of sub_1, the admin edits the configuration of
\* solas-nua and the seeding script is run; in any order and together.
AdminConfirmations ==
    { [Confirmation EXCEPT !.spaceId = s] : s \in {2222222, NewSpaceId} }

InitAdmin ==
    /\ env = AllKeysSet
    /\ communities = SeedCommunities
    /\ \/ NoUsersYet /\ attachedTo = {}
       \/ /\ ProvisionedSubscriber
          /\ attachedTo = { << FeedSubscription.id, 2222222 >> }
    /\ NothingReceived
    /\ feed = NoFeed

ConfirmNext(p) ==
    /\ nForward < MaxForward
    /\ MayStart(fwd, p)
    /\ \E in \in AdminConfirmations : Submit(p, in)
    /\ UNCHANGED aside

\* the attach call of slot p put the member in the space
AttachDone(p) ==
    /\ fwd[p].pc = "attach" /\ fwd'[p].pc = "done"
    /\ "attach" \notin fwd'[p].thrown

\* a step of provisioning, with the history of attach calls kept
ProvisionStep(p) ==
    /\ ForwardStep(p)
    /\ attachedTo' =
          IF AttachDone(p)
          THEN { x \in attachedTo : x[1] # fwd[p].subRowId }
                  \cup { << fwd[p].subRowId, fwd[p].args.spaceId >> }
          ELSE attachedTo
    /\ UNCHANGED << feed, idp, admin, seed >>

DeliverNext(h) ==
    /\ nHooks < MaxHooks
    /\ MayStart(hook, h)
    /\ \E evt \in FeedEvents : ReceiveEvent(h, evt)
    /\ nHooks' = nHooks + 1
    /\ UNCHANGED aside

AdminStep == AdminSubmit \/ AdminWrite \/ AdminRevalidate \/ FinishAdmin

SeedStep == SeedStart \/ SeedWrite

NextAdmin ==
    \/ \E p \in Procs : ConfirmNext(p)
    \/ \E p \in Procs : ProvisionStep(p)
    \/ \E h \in Procs : DeliverNext(h)
    \/ (\E h \in Procs : HookStep(h)) /\ UNCHANGED aside
    \/ AdminStep
    \/ SeedStep

SpecAdmin == InitAdmin /\ [][NextAdmin]_vars


\* ------------------------------------------ redelivery of an ending event
\* u1's subscription sub_1 is provisioned; the gateway holds one event that
\* ends it (feed.emitted) and delivers it again and again.  An attempt is
\* received whatever the attempts before it are doing, so two deliveries of
\* the event may be handled together.  A delivery that has started runs to
\* its answer; the database calls and the revocation call may fail any number
\* of times but not for ever.
EndingEvents ==
    { e \in HookInputs :
        /\ e.signature = "good" /\ e.subId = "sub_1"
        /\ Dispatch(e) # NoTarget /\ isEnded(Dispatch(e).newStatus) }

InitRedelivery ==
    /\ Provisioned
    /\ \E e \in EndingEvents :
          feed = [emitted |-> << e >>, log |-> << >>, clean |-> TRUE]

\* the gateway's next attempt at the event
Redeliver(h) ==
    /\ ReceiveEvent(h, feed.emitted[1])
    /\ UNCHANGED << nHooks, aside >>

\* the step of delivery h raised nothing
Clean(h) == hook'[h].thrown = hook[h].thrown

LookupStep(h) == HookLookup(h) /\ UNCHANGED aside
UpdateStep(h) == HookUpdate(h) /\ UNCHANGED aside
RevokeStep(h) == HookRevoke(h) /\ UNCHANGED aside
MarkStep(h) == HookMarkFailed(h) /\ UNCHANGED aside
AnswerStep(h) == FinishHook(h) /\ UNCHANGED aside

NextRedelivery ==
    \/ \E h \in Procs : Redeliver(h)
    \/ \E h \in Procs : LookupStep(h)
    \/ \E h \in Procs : UpdateStep(h)
    \/ \E h \in Procs : RevokeStep(h)
    \/ \E h \in Procs : MarkStep(h)
    \/ \E h \in Procs : AnswerStep(h)

FairRedelivery ==
    /\ WF_vars(\E h \in Procs : Redeliver(h))
    /\ \A h \in Procs :
          /\ WF_vars(LookupStep(h)) /\ WF_vars(UpdateStep(h))
          /\ WF_vars(RevokeStep(h))
          /\ WF_vars(MarkStep(h)) /\ WF_vars(AnswerStep(h))
          /\ SF_vars(LookupStep(h) /\ Clean(h))
          /\ SF_vars(UpdateStep(h) /\ Clean(h))
          /\ SF_vars(RevokeStep(h) /\ Clean(h))

SpecRedelivery == InitRedelivery /\ [][NextRedelivery]_vars /\ FairRedelivery


\* -------------------------------------------------------------- properties
\* the step is one of request p / of delivery h
ForwardActs(p) == fwd'[p] # fwd[p]
HookActs(h) == hook'[h] # hook[h]
\* ... and the one with which it answers
ForwardAnswers(p) == fwd[p].pc # "done" /\ fwd'[p].pc = "done"
HookAnswers(h) == hook[h].pc # "done" /\ hook'[h].pc = "done"

SessionRead(req) == "payment_status" \in DOMAIN req.session
CommunityFound(req) == "circleSpaceId" \in DOMAIN req.community

\* One of the preconditions of the forward path fails on what the handler
\* read: caller not authenticated, no email, session not paid, session of
\* another user, community not found, space id mismatch, price matching
\* neither configured price.
PreconditionFails(req) ==
    \/ req.userId = NoUser
    \/ req.email = NoStr
    \/ SessionRead(req) /\ req.session.client_reference_id # req.userId
    \/ SessionRead(req) /\ req.session.payment_status # "paid"
    \/ req.community = NoRow
    \/ CommunityFound(req) /\ req.community.circleSpaceId # req.body.spaceId
    \/ /\ CommunityFound(req)
       /\ req.session.price \notin { req.community.stripePriceIdMonthly,
                                     req.community.stripePriceIdAnnually }

\* C1: a request that fails one of the forward path's preconditions is
\* answered with a 4xx failure response, and neither while it is handled nor
\* in its record is there a database write or a community-platform call.
C1_RejectedWithoutEffect ==
    /\ [](\A p \in Procs :
            (fwd[p].pc # "idle" /\ PreconditionFails(fwd[p].req)) =>
                /\ fwd[p].pc = "done"
                /\ fwd[p].response.status \in 400..499
                /\ ~fwd[p].response.success
                /\ fwd[p].result = NoResult
                /\ fwd[p].writes = 0
                /\ fwd[p].calls = NoCalls)
    /\ [][\A p \in Procs :
            (fwd[p].pc = "idle" /\ fwd'[p].pc # "idle"
             /\ PreconditionFails(fwd'[p].req)) =>
                UNCHANGED << db, platform, createCalls >>]_vars

\* a paid session of the caller for the right space whose price is neither
\* configured price, refused while the caller already holds a subscription row
C1_Witness ==
    \E p \in Procs :
        /\ fwd[p].pc = "done"
        /\ CommunityFound(fwd[p].req)
        /\ fwd[p].req.session.client_reference_id = fwd[p].req.userId
        /\ fwd[p].req.session.payment_status = "paid"
        /\ fwd[p].req.community.circleSpaceId = fwd[p].req.body.spaceId
        /\ fwd[p].req.session.price = "price_OTHER"
        /\ fwd[p].response.status = 400
        /\ SubRowsOf(fwd[p].req.userId, fwd[p].req.community.id) # {}

\* C2: there is never more than one Subscription row for a (user, community)
\* pair, and an invocation whose upsert went through - a first submission or
\* a resubmission of the same session - leaves exactly one.
C2_OneRowPerPair ==
    /\ \A u \in UserIds : \A c \in DOMAIN communities :
          Cardinality(SubRowsOf(u, c)) <= 1
    /\ \A p \in Procs :
          fwd[p].subRowId # Null =>
              Cardinality(SubRowsOf(fwd[p].args.platformUserId,
                                    fwd[p].args.communityId)) = 1

\* a resubmission of a session whose subscription was already stored succeeded
C2_Witness ==
    \E p \in Procs :
        /\ fwd[p].pc = "done"
        /\ fwd[p].resubmit
        /\ fwd[p].result.success
        /\ fwd[p].subRowId # Null
        /\ Cardinality(SubRowsOf(fwd[p].args.platformUserId,
                                 fwd[p].args.communityId)) = 1

\* C3: for one email at most one member-creation call is ever issued, over
\* all the submissions made.
C3_AtMostOneCreateCall == \A e \in Emails : createCalls[e] <= 1

CreateSteps == {"create1", "create2"}
RowsOfInvocation(l) == SubRowsOf(l.args.platformUserId, l.args.communityId)

\* C4: when a member-creation call of an invocation failed, the invocation
\* ends with the pair's Subscription row 'provisioning_failed' and a response
\* with success false.
C4_CreateFailureMarked ==
    \A p \in Procs :
        (fwd[p].pc = "done" /\ fwd[p].thrown \cap CreateSteps # {}
         /\ "markCreateFailed" \notin fwd[p].thrown) =>
            /\ ~fwd[p].response.success
            /\ RowsOfInvocation(fwd[p]) # {}
            /\ \A r \in RowsOfInvocation(fwd[p]) : r.status = "provisioning_failed"

\* C5: a delivery that changes a row's status to an ended one issues exactly
\* one delete call, and a delivery that finds the row already as the event
\* describes it issues none.
C5_DeleteOncePerTransition ==
    \A h \in Procs :
        /\ (hook[h].pc = "done" /\ hook[h].known /\ hook[h].needsUpdate
            /\ "status" \in DOMAIN hook[h].data
            /\ isEnded(hook[h].target.newStatus)
            /\ "update" \notin hook[h].thrown) => hook[h].calls.delete = 1
        /\ (hook[h].known /\ ~hook[h].needsUpdate) => hook[h].calls.delete = 0

\* C6: a delivery whose lookup finds no row with the event's subscription
\* reference is answered at that step, with 200, having made no write and no
\* platform call; the step changes no row and nothing on the platform.
C6_UnknownSubscriptionIgnored ==
    [][\A h \in Procs :
        (hook[h].pc = "lookup" /\ HookActs(h)
         /\ SubByStripeId(hook[h].target.stripeSubscriptionId) = {}) =>
            /\ UNCHANGED << db, platform >>
            /\ hook'[h].pc = "done"
            /\ "lookup" \notin hook'[h].thrown =>
                  /\ hook'[h].status = 200
                  /\ ~hook'[h].known
                  /\ hook'[h].calls.write = 0
                  /\ hook'[h].calls.delete = 0]_vars

\* a verified status change for a foreign subscription, answered while
\* subscription rows exist
C6_Witness ==
    \E h \in Procs :
    /\ hook[h].pc = "done"
    /\ hook[h].target # NoTarget
    /\ hook[h].target.stripeSubscriptionId = "sub_9"
    /\ hook[h].target.newStatus = "canceled"
    /\ hook[h].calls.lookup = 1
    /\ hook[h].status = 200
    /\ subs # {}

\* C7: provisionCircleAccess never raises to its caller: every invocation
\* ends by returning a result, success or a failure with a message.
C7_NeverRaises ==
    \A p \in Procs :
        /\ fwd[p].result.kind # "raised"
        /\ (fwd[p].pc = "done" /\ fwd[p].args # NoArgs) =>
              /\ fwd[p].result.kind = "returned"
              /\ fwd[p].result.success \/ fwd[p].result.error # NoStr
              /\ fwd[p].response.success = fwd[p].result.success

\* the compensating write itself raised, inside a catch block
C7_Witness ==
    \E p \in Procs :
        /\ fwd[p].pc = "done"
        /\ fwd[p].thrown \cap {"markCreateFailed", "markAttachFailed"} # {}
        /\ fwd[p].result.kind = "returned"
        /\ ~fwd[p].result.success

\* C8: an invocation that fails after the User upsert, with no compensating
\* write raising, does not leave the pair's Subscription row 'active'.
C8_FailureLeavesNoActiveRow ==
    \A p \in Procs :
        (fwd[p].pc = "done" /\ fwd[p].args # NoArgs /\ ~fwd[p].result.success
         /\ "upsertUser" \notin fwd[p].thrown
         /\ fwd[p].thrown \cap {"markCreateFailed", "markAttachFailed"} = {}) =>
            \A r \in RowsOfInvocation(fwd[p]) : r.status # "active"

Configured == env.stripeKey /\ env.webhookSecret
Unsigned(evt) == evt.signature \in {"none", "bad"}

\* C9: a delivery without a signature, or with one that does not verify, is
\* not processed - no lookup, no write, no platform call, no event parsed -
\* and the configured endpoint answers it with 400.
C9_UnsignedRejected ==
    /\ [](\A h \in Procs :
            (hook[h].pc # "idle" /\ Unsigned(hook[h].evt)) =>
                /\ hook[h].pc = "done"
                /\ hook[h].target = NoTarget
                /\ hook[h].calls = NoCallsHook
                /\ hook[h].status # 200
                /\ Configured => hook[h].status = 400)
    /\ [][\A h \in Procs :
            (hook[h].pc = "idle" /\ hook'[h].pc # "idle"
             /\ Unsigned(hook'[h].evt)) =>
                UNCHANGED << db, platform >>]_vars

\* a delivery whose signature does not verify, refused by the configured
\* endpoint while subscription rows exist
C9_Witness ==
    \E h \in Procs :
    /\ hook[h].pc = "done"
    /\ hook[h].evt.signature = "bad"
    /\ Configured
    /\ hook[h].status = 400
    /\ subs # {}

Attached(r) ==
    << users[r.userId].email, communities[r.communityId].circleSpaceId >>
        \in spaceMembers

\* C10: whenever no request and no delivery is in flight, the user of every
\* 'active' row is attached to the row's space and the user of every
\* 'canceled' or 'unpaid' row is not.
C10_QuiescentConsistency ==
    AllIdle =>
        \A r \in subs :
            /\ r.status = "active" => Attached(r)
            /\ r.status \in {"canceled", "unpaid"} => ~Attached(r)

\* the row delivery h matched
HookRow(h) == SubById(hook[h].sub.id)

\* C11: when the revocation call fails and the write that follows goes
\* through, the delivery ends with the row 'access_revocation_failed' and is
\* answered 200; a delivery in which only the platform call failed is never
\* answered with a 5xx status.
C11_RevocationFailureAcknowledged ==
    /\ [][\A h \in Procs :
            (HookAnswers(h) /\ "revoke" \in hook'[h].thrown
             /\ "markRevocationFailed" \notin hook'[h].thrown) =>
                /\ hook'[h].status = 200
                /\ HookRow(h)' # {}
                /\ \A r \in HookRow(h)' :
                      r.status = "access_revocation_failed"]_vars
    /\ [](\A h \in Procs :
            (hook[h].pc = "done" /\ hook[h].thrown = {"revoke"}) =>
                hook[h].status \notin 500..599)

\* the status 'canceled' was written, the delete call failed, the row was
\* overwritten and the delivery acknowledged
C11_Witness ==
    \E h \in Procs :
    /\ hook[h].pc = "done"
    /\ hook[h].thrown = {"revoke"}
    /\ "status" \in DOMAIN hook[h].data
    /\ hook[h].data.status = "canceled"
    /\ hook[h].calls.write = 2
    /\ hook[h].status = 200
    /\ \A r \in HookRow(h) : r.status = "access_revocation_failed"

\* C13: a delivery that finds the stored status and end date equal to the
\* event's makes no write to the Subscription row.
C13_UnchangedEventWritesNothing ==
    \A h \in Procs :
        (hook[h].known /\ ~hook[h].needsUpdate) => hook[h].calls.write = 0

\* C15: when the lookup or the status / end-date write raises, the delivery
\* is answered with a 5xx status and no revocation call was issued for it.
C15_DatabaseFailureAnswered5xx ==
    \A h \in Procs :
    (hook[h].thrown \cap {"lookup", "update"} # {}) =>
        /\ hook[h].pc = "done"
        /\ hook[h].status \in 500..599
        /\ hook[h].calls.delete = 0
        /\ hook[h].deleteArg = << >>

\* the write of an ended status raised
C15_Witness ==
    \E h \in Procs :
    /\ hook[h].pc = "done"
    /\ "update" \in hook[h].thrown
    /\ hook[h].target.newStatus \in {"canceled", "unpaid"}
    /\ hook[h].status = 500
    /\ hook[h].calls.delete = 0

IsUpdatedEvent(evt) == evt.type = "customer.subscription.updated"

\* C17: a verified customer.subscription.updated event enters reconciliation
\* exactly when its status is active, past_due, unpaid or canceled, with the
\* end date cancel_at * 1000 when cancel_at_period_end is set and cancel_at is
\* present and null otherwise; with any other status it is answered 200 and
\* nothing is read or written.
C17_UpdatedEventDispatch ==
    \A h \in Procs :
    (hook[h].pc # "idle" /\ IsUpdatedEvent(hook[h].evt)) =>
        IF hook[h].evt.status \in {"active", "past_due", "unpaid", "canceled"}
        THEN /\ hook[h].pc = "lookup"
             /\ hook[h].target # NoTarget
             /\ hook[h].target.stripeSubscriptionId = hook[h].evt.subId
             /\ hook[h].target.newStatus = hook[h].evt.status
             /\ hook[h].target.endDateMs =
                   IF hook[h].evt.cancel_at_period_end /\ hook[h].evt.cancel_at # Null
                   THEN hook[h].evt.cancel_at * 1000 ELSE Null
        ELSE /\ hook[h].pc = "done"
             /\ hook[h].status = 200
             /\ hook[h].target = NoTarget
             /\ hook[h].calls = NoCallsHook

\* an update scheduling the cancellation at the period's end enters
\* reconciliation with the end date in milliseconds
C17_Witness ==
    \E h \in Procs :
    /\ hook[h].pc = "lookup"
    /\ IsUpdatedEvent(hook[h].evt)
    /\ hook[h].evt.cancel_at_period_end
    /\ hook[h].evt.cancel_at = 2
    /\ hook[h].target.endDateMs = 2000

\* C18: a revocation call is issued only for the new status 'canceled' or
\* 'unpaid', and it carries the email of the matched Subscription's user and
\* the space id of its community.
C18_RevocationOnlyWhenEnded ==
    \A h \in Procs :
    /\ hook[h].pc = "revoke" => hook[h].target.newStatus \in {"canceled", "unpaid"}
    /\ hook[h].calls.delete > 0 =>
          /\ hook[h].calls.delete = 1
          /\ hook[h].target.newStatus \in {"canceled", "unpaid"}
          /\ \A r \in SubByStripeId(hook[h].target.stripeSubscriptionId) :
                hook[h].deleteArg = << users[r.userId].email,
                                    communities[r.communityId].circleSpaceId >>
          /\ SubByStripeId(hook[h].target.stripeSubscriptionId) # {}
    /\ (hook[h].pc = "done" /\ hook[h].known
        /\ hook[h].target.newStatus \in {"active", "past_due"}) =>
            hook[h].calls.delete = 0

\* u1's subscription ended while u2's subscription to the other space exists
C18_Witness ==
    \E h \in Procs :
    /\ hook[h].pc = "done"
    /\ hook[h].calls.delete = 1
    /\ hook[h].deleteArg = << "a@x.ie", 2222222 >>
    /\ hook[h].target.newStatus = "unpaid"
    /\ Cardinality(subs) = 2

\* C19: an invocation whose User upsert returned a cached member id issues no
\* search and no creation call, and attaches with exactly that id.
C19_CachedIdTrusted ==
    \A p \in Procs :
        fwd[p].cachedId # Null =>
            /\ fwd[p].calls.search = 0
            /\ fwd[p].calls.create = 0
            /\ fwd[p].pc \notin {"search", "cacheFound", "create1", "cache1",
                                 "create2", "cache2", "markCreateFailed"}
            /\ fwd[p].calls.attach > 0 => fwd[p].attachId = fwd[p].cachedId

\* a second confirmation, provisioned from the id cached by the first
C19_Witness ==
    \E p \in Procs :
        /\ fwd[p].pc = "done"
        /\ fwd[p].cachedId # Null
        /\ fwd[p].cachedId = PlatformMemberId(fwd[p].args.userEmail)
        /\ fwd[p].calls.attach = 1
        /\ fwd[p].attachId = fwd[p].cachedId
        /\ fwd[p].result.success

\* the database and platform calls of provisionCircleAccess
CallSteps ==
    { "upsertUser", "upsertSub", "search", "cacheFound", "create1", "cache1",
      "create2", "cache2", "markCreateFailed", "attach", "markAttachFailed" }

\* C12: a valid paid confirmation for a member the platform does not know
\* yet, none of whose database and platform calls fails, ends with the pair's
\* row 'active', the plan type of the purchased price, end date null, and the
\* response success:true with redirectUrl /platform-space/<spaceId>.
C12_ValidCheckoutProvisioned ==
    \A p \in Procs :
        (fwd[p].pc = "done" /\ fwd[p].args # NoArgs
         /\ fwd[p].cachedId = Null /\ fwd[p].calls.create >= 1
         /\ fwd[p].thrown \cap CallSteps = {}) =>
            /\ fwd[p].response.success
            /\ fwd[p].response.status = 200
            /\ fwd[p].response.redirectUrl = << "/platform-space/", fwd[p].args.spaceId >>
            /\ RowsOfInvocation(fwd[p]) # {}
            /\ \A r \in RowsOfInvocation(fwd[p]) :
                  /\ r.status = "active"
                  /\ r.endDate = Null
                  /\ r.planType =
                        IF fwd[p].req.session.price =
                              fwd[p].req.community.stripePriceIdMonthly
                        THEN "monthly" ELSE "annual"

SaysAlreadyMember(text) ==
    \/ includes(toLowerCase(text), S_already_a_member)
    \/ includes(toLowerCase(text), S_already_been_taken)

\* C20: an invocation whose attach call failed with a message or nested
\* detail message that contains, in any letter case, 'already a member' or
\* 'already been taken' answers success and writes nothing to the
\* Subscription rows, the row staying as it is; after any other attach
\* failure the invocation answers failure, with the row
\* 'provisioning_failed' (when that write goes through).
C20_AlreadyMemberIsSuccess ==
    [][\A p \in Procs :
        (ForwardAnswers(p) /\ "attach" \in fwd'[p].thrown) =>
            IF \/ SaysAlreadyMember(fwd'[p].attachError.message)
               \/ SaysAlreadyMember(fwd'[p].attachError.detailsMessage)
            THEN /\ fwd[p].pc = "attach"
                 /\ fwd'[p].result.success
                 /\ fwd'[p].response.success
                 /\ subs' = subs
            ELSE /\ fwd[p].pc = "markAttachFailed"
                 /\ ~fwd'[p].result.success
                 /\ ~fwd'[p].response.success
                 /\ "markAttachFailed" \notin fwd'[p].thrown =>
                       /\ RowsOfInvocation(fwd[p])' # {}
                       /\ \A r \in RowsOfInvocation(fwd[p])' :
                             r.status = "provisioning_failed"]_vars

\* the platform answered "Already a Member" to a second confirmation, the
\* member being in the space; the row is 'active'
C20_Witness ==
    \E p \in Procs :
        /\ fwd[p].pc = "done"
        /\ fwd[p].resubmit
        /\ fwd[p].attachError.message = M_AlreadyMember
        /\ fwd[p].result.success
        /\ << fwd[p].args.userEmail, fwd[p].args.spaceId >> \in spaceMembers
        /\ RowsOfInvocation(fwd[p]) # {}
        /\ \A r \in RowsOfInvocation(fwd[p]) : r.status = "active"

\* the answer to a request at which sessions.retrieve raised `message`
AnswerToGatewayError(message) ==
    RejectResponse("retrieve", [gateway |-> message])

\* C16: the error string of the response does not depend on the message of
\* an external error: a request at which the gateway raised is answered with
\* the error string it would get had the gateway raised any other message,
\* and a failed provisioning is answered with the fixed provisioning message.
C16_ErrorStringIndependent ==
    /\ \A p \in Procs : \A message \in GatewayErrors :
          (fwd[p].pc = "done" /\ fwd[p].req.session = Threw) =>
              fwd[p].response.error = AnswerToGatewayError(message).error
    /\ \A p \in Procs :
          (fwd[p].pc = "done" /\ fwd[p].args # NoArgs /\ ~fwd[p].result.success) =>
              fwd[p].response.error = "Error provisioning Circle access"

\* the stored status after the events are reconciled once each, in the
\* order given, every call succeeding
RECURSIVE StatusInOrder(_, _)
StatusInOrder(status, events) ==
    IF events = << >> THEN status
    ELSE LET target == Dispatch(Head(events))
         IN  StatusInOrder(IF target = NoTarget THEN status ELSE target.newStatus,
                           Tail(events))

EveryEventDelivered ==
    \A i \in DOMAIN feed.emitted : \E k \in DOMAIN feed.log : feed.log[k] = i

\* C14: once every emitted event of the subscription was delivered at least
\* once, in whatever order and however often, with no call failing, the
\* stored status is the one in-order exactly-once delivery produces.
C14_DeliveryOrderIrrelevant ==
    (AllIdle /\ feed.emitted # << >> /\ feed.clean /\ EveryEventDelivered) =>
        \A r \in SubByStripeId("sub_1") :
            r.status = StatusInOrder(FeedSubscription.status, feed.emitted)

\* C21: within one invocation of provisionCircleAccess the member search, the
\* member creation and the attach to the space are each called at most once.
C21_EachCallAtMostOnce ==
    \A p \in Procs :
        /\ fwd[p].calls.search <= 1
        /\ fwd[p].calls.create <= 1
        /\ fwd[p].calls.attach <= 1

\* the steps of provisionCircleAccess behind the User upsert
AfterUserUpsert ==
    { "upsertSub", "search", "cacheFound", "create1", "cache1", "create2",
      "cache2", "markCreateFailed", "attach", "markAttachFailed" }

\* C22: an invocation whose User upsert raised returns success false with no
\* Subscription write and no community-platform call made; the Subscription
\* upsert is reached only after the invocation's User upsert went through;
\* and every Subscription row references an existing User row.
C22_UserUpsertFailureAborts ==
    /\ \A p \in Procs :
          "upsertUser" \in fwd[p].thrown =>
              /\ fwd[p].pc = "done"
              /\ fwd[p].result = Returned(FALSE, "Error provisioning Circle access")
              /\ ~fwd[p].response.success
              /\ fwd[p].writes = 0
              /\ fwd[p].subRowId = Null
              /\ fwd[p].calls = NoCalls
    /\ \A p \in Procs :
          (fwd[p].pc \in AfterUserUpsert \/ fwd[p].subRowId # Null) =>
              /\ "upsertUser" \notin fwd[p].thrown
              /\ fwd[p].writes >= 1
              /\ users[fwd[p].args.platformUserId] # NoRow
    /\ \A r \in subs : users[r.userId] # NoRow

\* the User upsert of u1's first confirmation raised: u1 has no User row and
\* no Subscription row, while u2's rows exist
C22_Witness ==
    \E p \in Procs :
        /\ fwd[p].pc = "done"
        /\ fwd[p].thrown = {"upsertUser"}
        /\ ~fwd[p].result.success
        /\ fwd[p].args.platformUserId = "u1"
        /\ users["u1"] = NoRow
        /\ \A r \in subs : r.userId = "u2"
        /\ subs # {}

BothAnswered == \A p \in Procs : fwd[p].pc = "done" /\ fwd[p].args # NoArgs

\* C23: while two confirmations of the same session by the same user are
\* handled together there is never more than one Subscription row for the
\* pair, and when both have answered and one of them reported success the
\* pair's row is 'active'.
C23_ConcurrentConfirmations ==
    /\ Cardinality(SubRowsOf("u1", 2)) <= 1
    /\ (BothAnswered /\ \E p \in Procs : fwd[p].response.success) =>
          /\ SubRowsOf("u1", 2) # {}
          /\ \A r \in SubRowsOf("u1", 2) : r.status = "active"

\* the lookup failed with status 404, or with a detail message that contains
\* 'not found'
SignalsNotFound(error) ==
    error.status = 404 \/ includes(error.detailsMessage, S_not_found)

\* C24: after a member search that failed with status 404, and equally after
\* one that failed on another status with a detail message containing
\* 'not found', the invocation goes on to the creation call, issues it once
\* with skip_invitation set, and caches the id it returned on the User row;
\* after a search failure with neither signal it ends in failure with no
\* creation call and no attach call.
C24_NotFoundSignalsEquivalent ==
    \A p \in Procs :
        "search" \in fwd[p].thrown =>
            IF SignalsNotFound(fwd[p].searchError)
            THEN /\ fwd[p].calls.create = 0 => fwd[p].pc = "create2"
                 /\ fwd[p].pc # "create2" =>
                       /\ fwd[p].calls.create = 1
                       /\ fwd[p].createBody =
                             [email |-> fwd[p].args.userEmail,
                              skip_invitation |-> TRUE]
                 /\ (fwd[p].pc \in {"attach", "markAttachFailed", "done"}
                     /\ fwd[p].thrown \cap {"create2", "readId", "cache2"} = {}) =>
                       /\ fwd[p].memberId = PlatformMemberId(fwd[p].args.userEmail)
                       /\ users[fwd[p].args.platformUserId].circleCommunityMemberId
                             = fwd[p].memberId
            ELSE /\ fwd[p].pc = "done"
                 /\ ~fwd[p].result.success
                 /\ fwd[p].calls.create = 0
                 /\ fwd[p].calls.attach = 0

\* the search answered 422 'Member not found'; the member was created, the
\* id cached and the member attached
C24_Witness ==
    \E p \in Procs :
        /\ fwd[p].pc = "done"
        /\ fwd[p].searchError = ApiError(422, M_MemberNotFound, M_MemberNotFound)
        /\ fwd[p].calls.create = 1
        /\ fwd[p].result.success
        /\ users[fwd[p].args.platformUserId].circleCommunityMemberId
              = PlatformMemberId(fwd[p].args.userEmail)

\* the delivery passed verification and was parsed into an event
IdentityVerified(i) == idp[i].evt.type # NoStr

IdentityUser(i) == users[idp[i].evt.userId]

\* C25: for a verified user.created event a failing member-creation call
\* leaves the answer 200 and the upserted User row in place with the cached
\* member id it had; the answer is 500 only when a database call failed; and
\* a verified event of another type is answered 200 with no database write
\* and no community-platform call.
C25_IdentityWebhook ==
    /\ [][\A i \in Procs :
            (idp[i].pc = "upsert" /\ idp'[i].pc = "invite") =>
                /\ IdentityUser(i)' # NoRow
                /\ IdentityUser(i)'.email = idp[i].evt.email
                /\ IdentityUser(i)'.circleCommunityMemberId =
                      IF IdentityUser(i) = NoRow THEN Null
                      ELSE IdentityUser(i).circleCommunityMemberId]_vars
    /\ [][\A i \in Procs :
            (idp[i].pc = "invite" /\ idp'[i].pc = "done"
             /\ "invite" \in idp'[i].thrown) =>
                /\ idp'[i].status = 200
                /\ users' = users
                /\ IdentityUser(i) # NoRow]_vars
    /\ [](\A i \in Procs :
            (idp[i].pc = "done" /\ idp[i].evt.type = "user.created"
             /\ idp[i].status = 500) =>
                idp[i].thrown \cap {"upsert", "storeId"} # {})
    /\ [](\A i \in Procs :
            (idp[i].pc # "idle" /\ IdentityVerified(i)
             /\ idp[i].evt.type # "user.created") =>
                /\ idp[i].pc = "done"
                /\ idp[i].status = 200
                /\ idp[i].calls = NoCallsIdp)
    /\ [][\A i \in Procs :
            (idp[i].pc = "idle" /\ idp'[i].pc # "idle"
             /\ idp'[i].evt.type \notin {NoStr, "user.created"}) =>
                UNCHANGED << db, platform, createCalls >>]_vars

\* C26: a confirmation of a session whose Subscription a webhook event has
\* set to 'canceled' does not set the row back to 'active' and issues no
\* attach call.
C26_CanceledNotReactivated ==
    \A p \in Procs :
        fwd[p].priorStatus = "canceled" =>
            /\ \A r \in SubByStripeId(fwd[p].args.stripeSubscriptionId) :
                  r.status # "active"
            /\ fwd[p].calls.attach = 0

\* the spaces the history holds for Subscription row `id` (none or one)
AttachedSpaces(id) == { x[2] : x \in { y \in attachedTo : y[1] = id } }

\* C27: the space named in a revocation call for a Subscription is the space
\* the member was attached to, for that Subscription, by provisioning.
C27_RevokedSpaceIsAttachedSpace ==
    \A h \in Procs :
        hook[h].calls.delete > 0 =>
            \A space \in AttachedSpaces(hook[h].sub.id) :
                hook[h].deleteArg[2] = space

CacheSteps == {"cacheFound", "cache1", "cache2"}

\* C28: a cached member id that is set is never changed or cleared: no step
\* of a provisioning invocation or of a payment-webhook delivery alters a
\* non-null User.circleCommunityMemberId, and an invocation is at a write of
\* the field only when the id its User upsert returned was null.
C28_CachedIdNeverChanged ==
    /\ [](\A p \in Procs : fwd[p].pc \in CacheSteps => fwd[p].cachedId = Null)
    /\ [][\A u \in UserIds :
            (users[u] # NoRow /\ users[u].circleCommunityMemberId # Null) =>
                /\ users'[u] # NoRow
                /\ users'[u].circleCommunityMemberId
                      = users[u].circleCommunityMemberId]_vars

\* u1's id was cached by a first confirmation; a delivery was handled and a
\* second confirmation has run its upserts and finished with the id in place
C28_Witness ==
    \E p \in Procs :
        /\ fwd[p].pc = "done"
        /\ fwd[p].resubmit
        /\ nHooks >= 1
        /\ fwd[p].writes >= 2
        /\ fwd[p].args.platformUserId = "u1"
        /\ fwd[p].cachedId = PlatformMemberId("a@x.ie")
        /\ users["u1"].circleCommunityMemberId = PlatformMemberId("a@x.ie")

\* delivery h is being reconciled by handleSubscriptionChange
Reconciling(h) ==
    hook[h].pc \in {"lookup", "update", "revoke", "markRevocationFailed"}

\* row r2 is row r with at most status and endDate written
OnlyStatusAndEndDateWritten(r, r2) ==
    /\ r2.id = r.id
    /\ r2.userId = r.userId
    /\ r2.communityId = r.communityId
    /\ r2.stripeSubscriptionId = r.stripeSubscriptionId
    /\ r2.planType = r.planType
    /\ r2.startDate = r.startDate

\* C29: a step of reconciliation leaves the User and Community tables as
\* they are, leaves every Subscription row other than the one carrying the
\* event's subscription reference as it is, and changes nothing of that row
\* but status and endDate; and a delivery that finds the stored status equal
\* to the event's, the end date alone differing, does not write the status.
C29_ReconciliationFrame ==
    /\ [][\A h \in Procs : (Reconciling(h) /\ HookActs(h)) =>
            /\ users' = users
            /\ communities' = communities
            /\ Cardinality(subs') = Cardinality(subs)
            /\ \A r \in subs :
                  /\ \E r2 \in subs' : OnlyStatusAndEndDateWritten(r, r2)
                  /\ r.stripeSubscriptionId # hook[h].target.stripeSubscriptionId
                        => r \in subs']_vars
    /\ [][\A h \in Procs :
            (Reconciling(h) /\ HookActs(h) /\ hook'[h].known
             /\ hook'[h].sub.status = hook'[h].target.newStatus
             /\ hook'[h].sub.endDate # hook'[h].target.endDateMs) =>
                \A r \in HookRow(h)' : \A r0 \in subs :
                    r0.id = r.id => r.status = r0.status]_vars

\* the Subscription of the redelivered event
EndedRow == SubByStripeId("sub_1")

RevocationFailedMark == \A r \in EndedRow : r.status = "access_revocation_failed"

Repaired ==
    /\ \A r \in EndedRow : r.status = Dispatch(feed.emitted[1]).newStatus
    /\ \A r \in EndedRow : ~Attached(r)

\* C30: the step with which a delivery of the ending event answers, when it
\* found the row 'access_revocation_failed' and its revocation call has
\* succeeded, leaves the row with the event's ended status and the member
\* out of the space; and with the event redelivered and the calls not failing
\* for ever, a row left 'access_revocation_failed' eventually holds the ended
\* status with the membership removed.  The second conjunct holds; the first
\* does not when two deliveries of the event are handled together: the
\* delivery whose revocation call failed writes the mark (lines 71-81) over
\* the status the other wrote, and the other's call then succeeds.
C30_RepairedByRedelivery ==
    /\ [][\A h \in Procs :
            (HookAnswers(h) /\ hook[h].pc = "revoke"
             /\ hook[h].sub.status = "access_revocation_failed"
             /\ "revoke" \notin hook'[h].thrown) =>
                Repaired']_vars
    /\ (RevocationFailedMark ~> Repaired)

====
